---------------------------- MODULE Spec2Model ----------------------------
(***************************************************************************)
(* A model of the time series store of src/tsdb.js (the second, current    *)
(* variant of the file, lines 357-827): five type partitions in a backend  *)
(* that executes one statement at a time, and the asynchronous public      *)
(* operations whose statements the backend interleaves.                    *)
(*                                                                         *)
(* JavaScript values are tagged records ("kind" is what typeof / isDate /  *)
(* Array.isArray inspect).  An attribute name is the sequence of its       *)
(* dot-free segments ("a.b" is <<"a","b">>), so that field + "." + name is *)
(* concatenation and key.split('.') yields the segments back.  A field     *)
(* path ".a.b" is <<"a","b">> (the leading empty segment is dropped).      *)
(***************************************************************************)
EXTENDS Integers, Sequences, FiniteSets, TLC

(***************************************************************************)
(* Program constants                                                       *)
(***************************************************************************)
MAX_ID_SIZE == 128
MAX_FIELD_SIZE == 512
MAX_STRING_SIZE == 4096
MAX_ARRAY_SIZE == 16384
AUTO_INCREMENT == 26264

\* a variant with the partitions declared in the reverse order
TS_TABLES_Reversed == <<"boolean", "date", "array", "number", "string">>

\* Object.keys(TS_TABLES), in declaration order
TS_TABLES == <<"string", "number", "array", "date", "boolean">>

Types == {TS_TABLES[i] : i \in 1..Len(TS_TABLES)}

(***************************************************************************)
(* Bounds of the model                                                     *)
(***************************************************************************)
\* number of clients (each runs one public operation at a time)
NumClients == 2
\* number of public operations invoked in one behaviour
MaxCalls == 3
\* timestamps are 1..MaxTime (milliseconds)
MaxTime == 2

Clients == 1..NumClients
Times == 1..MaxTime

(***************************************************************************)
(* JavaScript values                                                       *)
(***************************************************************************)
Num(n) == [kind |-> "number", finite |-> TRUE, n |-> n]
NaN == [kind |-> "number", finite |-> FALSE, n |-> 0]
\* the string made of the character ch repeated len times
Str(ch, len) == [kind |-> "string", ch |-> ch, len |-> len]
Bool(b) == [kind |-> "boolean", b |-> b]
Date(ms) == [kind |-> "date", ms |-> ms]
Arr(elems) == [kind |-> "array", elems |-> elems]
Obj(props) == [kind |-> "object", props |-> props]
Null == [kind |-> "null"]
Undefined == [kind |-> "undefined"]
Func == [kind |-> "function"]

EmptyObject == Obj(<<>>)
\* {name: v} for a dot-free attribute name
Prop(name, v) == (<<name>> :> v)

isDate(v) == v.kind = "date"

\* typeof(v)
typeof(v) ==
    CASE v.kind \in {"number", "string", "boolean", "undefined", "function"} -> v.kind
      [] OTHER -> "object"

\* a 512 character attribute name: ".<name>" exceeds MAX_FIELD_SIZE
LongName == "kkkkkkkkkkkkkkkkkkkkkkkkkkkkkkkkkkkkkkkkkkkkkkkkkkkkkkkkkkkkkkkkkkkkkkkkkkkkkkkkkkkkkkkkkkkkkkkkkkkkkkkkkkkkkkkkkkkkkkkkkkkkkkkkkkkkkkkkkkkkkkkkkkkkkkkkkkkkkkkkkkkkkkkkkkkkkkkkkkkkkkkkkkkkkkkkkkkkkkkkkkkkkkkkkkkkkkkkkkkkkkkkkkkkkkkkkkkkkkkkkkkkkkkkkkkkkkkkkkkkkkkkkkkkkkkkkkkkkkkkkkkkkkkkkkkkkkkkkkkkkkkkkkkkkkkkkkkkkkkkkkkkkkkkkkkkkkkkkkkkkkkkkkkkkkkkkkkkkkkkkkkkkkkkkkkkkkkkkkkkkkkkkkkkkkkkkkkkkkkkkkkkkkkkkkkkkkkkkkkkkkkkkkkkkkkkkkkkkkkkkkkkkkkkkkkkkkkkkkkkkkkkkkkkkkkkkkkkkkkkkkkkkkkkkkkkkkkkkkkkkkkkkkkkkkkk"

RECURSIVE SumLen(_)
SumLen(segs) == IF segs = <<>> THEN 0 ELSE 1 + Len(Head(segs)) + SumLen(Tail(segs))

\* field.length, field being "." + segments joined by "."
FieldLength(field) == SumLen(field)

isNode(node) ==
    \/ typeof(node) = "number"
    \/ typeof(node) = "string" /\ node.len > 0 /\ node.len < MAX_ID_SIZE

(***************************************************************************)
(* Value codec                                                             *)
(***************************************************************************)
\* the length of the text of Date.prototype.toJSON, "1970-01-01T00:00:00.001Z"
ISO_LENGTH == 24

RECURSIVE Digits(_)
Digits(n) == IF n < 10 THEN 1 ELSE 1 + Digits(n \div 10)

\* JSON.stringify of one array element, as a token of the text (j names the
\* token class, or the repeated character of a string token; a Date element
\* becomes the string of its toJSON, whose characters are not spelled out;
\* elements that are arrays or objects are not represented)
JSONToken(e) ==
    CASE e.kind = "number" /\ e.finite -> [j |-> "number", n |-> e.n, len |-> Digits(e.n)]
      [] e.kind = "string" -> [j |-> e.ch, n |-> e.len, len |-> e.len + 2]
      [] e.kind = "date" -> [j |-> "toJSON", n |-> ISO_LENGTH, len |-> ISO_LENGTH + 2]
      [] e.kind = "boolean" -> [j |-> "boolean", n |-> IF e.b THEN 1 ELSE 0,
                                len |-> IF e.b THEN 4 ELSE 5]
      [] OTHER -> [j |-> "null", n |-> 0, len |-> 4]

RECURSIVE TokensLength(_)
TokensLength(toks) ==
    IF toks = <<>> THEN 0
    ELSE Head(toks).len + (IF Len(toks) > 1 THEN 1 ELSE 0) + TokensLength(Tail(toks))

\* JSON.stringify(value) for an array: the text as its element tokens, and its length
JSONstringify(value) ==
    LET toks == [i \in 1..Len(value.elems) |-> JSONToken(value.elems[i])]
    IN [items |-> toks, length |-> 2 + TokensLength(toks)]

JSONUntoken(t) ==
    CASE t.j = "number" -> Num(t.n)
      [] t.j = "boolean" -> Bool(t.n = 1)
      [] t.j = "null" -> Null
      [] OTHER -> Str(t.j, t.n)

JSONparse(text) == Arr([i \in 1..Len(text.items) |-> JSONUntoken(text.items[i])])

(***************************************************************************)
(* insert: validation and type dispatch of one field, and the fan-out of   *)
(* insertCheckedObject.  The synchronous part of a call runs to its first  *)
(* backend statement, so the whole fan-out of one insertObject is decided  *)
(* in one step: each leaf is a branch that either failed validation or     *)
(* has its first statement (morerecents) in flight.  "awaited" tells       *)
(* whether the promise of the branch is joined by the caller's             *)
(* Promise.all: insert does not await the insertCheckedObject of a nested  *)
(* object, so only the leaves of the top level are.                        *)
(***************************************************************************)
Double(n) == [enc |-> "DOUBLE", n |-> n]
Text(ch, len) == [enc |-> "TEXT", ch |-> ch, len |-> len]
Tinyint(n) == [enc |-> "TINYINT", n |-> n]
Bigint(n) == [enc |-> "BIGINT", n |-> n]
JsonText(t) == [enc |-> "JSON", items |-> t.items, length |-> t.length]

WriteBranch(path, field, type, value, awaited) ==
    [path |-> path, field |-> field, kind |-> "write", type |-> type,
     value |-> value, error |-> "none", awaited |-> awaited]

ErrorBranch(path, field, error, awaited) ==
    [path |-> path, field |-> field, kind |-> "error", type |-> "none",
     value |-> Tinyint(0), error |-> error, awaited |-> awaited]

\* the value column written by insertCheckedNumber
insertCheckedNumber(path, field, value, awaited) ==
    {WriteBranch(path, field, "number", Double(value.n), awaited)}

insertCheckedBoolean(path, field, value, awaited) ==
    {WriteBranch(path, field, "boolean", Tinyint(IF value.b THEN 1 ELSE 0), awaited)}

\* a variant without the check of the length
insertCheckedStringUnchecked(path, field, value, awaited) ==
    {WriteBranch(path, field, "string", Text(value.ch, value.len), awaited)}

insertCheckedString(path, field, value, awaited) ==
    IF value.len > MAX_STRING_SIZE
    THEN {ErrorBranch(path, field, "ValueTooLarge", awaited)}
    ELSE {WriteBranch(path, field, "string", Text(value.ch, value.len), awaited)}

insertCheckedArray(path, field, value, awaited) ==
    LET representation == JSONstringify(value)
    IN IF representation.length > MAX_ARRAY_SIZE
       THEN {ErrorBranch(path, field, "ValueTooLarge", awaited)}
       ELSE {WriteBranch(path, field, "array", JsonText(representation), awaited)}

insertCheckedDate(path, field, value, awaited) ==
    {WriteBranch(path, field, "date", Bigint(value.ms), awaited)}

\* the condition of the last else-if of insert: typeof(value == 'object') is the
\* string "boolean", which is truthy whatever the value
IsObjectBranch(value) == typeof(Bool(value.kind = "object")) # ""

\* Object.keys(value): the own attribute names; it throws on null and undefined
\* and is empty for the other values that are no plain object
ObjectKeys(value) == IF value.kind = "object" THEN DOMAIN value.props ELSE {}

RECURSIVE insert(_, _, _, _, _, _)
\* The branches of insertCheckedObject(node, field, value, timestamp); awaited
\* is that of the inserts it starts
insertCheckedObject(node, path, field, value, timestamp, awaited) ==
    IF value.kind \in {"null", "undefined"}
    THEN {ErrorBranch(path, field, "TypeError", awaited)}
    ELSE UNION {insert(node, Append(path, k), field \o k, value.props[k], timestamp, awaited)
                : k \in ObjectKeys(value)}

insert(node, path, field, value, timestamp, awaited) ==
    IF ~isDate(timestamp) THEN {ErrorBranch(path, field, "InvalidArgument", awaited)}
    ELSE IF ~isNode(node) THEN {ErrorBranch(path, field, "InvalidArgument", awaited)}
    ELSE IF FieldLength(field) = 0 \/ FieldLength(field) > MAX_FIELD_SIZE
    THEN {ErrorBranch(path, field, "InvalidArgument", awaited)}
    ELSE IF typeof(value) = "number" /\ value.finite
    THEN insertCheckedNumber(path, field, value, awaited)
    ELSE IF typeof(value) = "string" THEN insertCheckedString(path, field, value, awaited)
    ELSE IF typeof(value) = "boolean" THEN insertCheckedBoolean(path, field, value, awaited)
    ELSE IF isDate(value) THEN insertCheckedDate(path, field, value, awaited)
    ELSE IF value.kind = "array" THEN insertCheckedArray(path, field, value, awaited)
    ELSE IF IsObjectBranch(value)
    \* not awaited: the promise of the nested insertCheckedObject is dropped, and
    \* with it the failures of its branches
    THEN {[b EXCEPT !.awaited = FALSE] :
            b \in insertCheckedObject(node, path, field, value, timestamp, FALSE)}
    ELSE {ErrorBranch(path, field, "UnsupportedType", awaited)}

(***************************************************************************)
(* State                                                                   *)
(***************************************************************************)
VARIABLES
    enableLock,       \* TSDB_ENABLE_LOCK of the deployment
    tsdbTablePrefix,  \* per client: the module variable (Undefined until initialize)
    partitions,       \* the tables that exist in the database, by name
    tables,           \* per type: the rows of the partition (of the prefix Prefix)
    nextId,           \* per type: the AUTO_INCREMENT counter of the partition
    sessLock,         \* per client: the table locks its session holds
    calls,            \* per client: its current (or last) public operation
    writers,          \* single-field writes in flight, each with one pending statement
    sessStmts,        \* LOCK / UNLOCK statements in flight
    ncalls,           \* number of public operations invoked so far
    hist              \* history: what the properties need to remember

vars == <<enableLock, partitions, tsdbTablePrefix, tables, nextId, sessLock, calls,
          writers, sessStmts, ncalls, hist>>

NoMap == <<>>

IdleCall ==
    [op |-> "none", pc |-> "idle", id |-> 0, node |-> Null, value |-> Undefined,
     date |-> Undefined, sure |-> Undefined, error |-> "none", result |-> Undefined,
     pend |-> {}, map |-> NoMap, i |-> 0, field |-> Undefined, limit |-> Undefined]

Init ==
    /\ enableLock \in BOOLEAN
    /\ tsdbTablePrefix = [c \in Clients |-> Undefined]
    /\ partitions = {}
    /\ tables = [t \in Types |-> {}]
    /\ nextId = [t \in Types |-> AUTO_INCREMENT]
    /\ sessLock = [c \in Clients |-> "none"]
    /\ calls = [c \in Clients |-> IdleCall]
    /\ writers = {}
    /\ sessStmts = {}
    /\ ncalls = 0
    /\ hist = [unlocked |-> {}, pre |-> [t \in Types |-> {}], removing |-> {},
               removed |-> {}, after |-> {}, written |-> {}, initialized |-> {}]

(***************************************************************************)
(* The backend: table locks of MySQL sessions                              *)
(***************************************************************************)
\* a statement of client c that reads may run unless another session holds WRITE
CanRead(c) == \A d \in Clients \ {c} : sessLock[d] # "WRITE"
\* a statement of client c that writes may run unless another session holds a lock
CanWrite(c) == \A d \in Clients \ {c} : sessLock[d] = "none"

\* getTableForType throws when no prefix is set
NotInitialized(c) == tsdbTablePrefix[c].kind = "undefined"

\* lock(type): the statement it issues, if any
lock(c, id, type) ==
    IF enableLock THEN {[client |-> c, call |-> id, stmt |-> "LOCK", mode |-> type]} ELSE {}

\* unlock(): the statement it issues, if any
unlock(c, id) ==
    IF enableLock THEN {[client |-> c, call |-> id, stmt |-> "UNLOCK", mode |-> "none"]} ELSE {}

\* history: the calls whose unlock() has issued its statement
NoteUnlock(h, id) ==
    [h EXCEPT !.unlocked = IF enableLock THEN @ \cup {id} ELSE @]

(***************************************************************************)
(* Latest-pointer maintenance                                              *)
(***************************************************************************)
\* SELECT id FROM table WHERE node AND timestamp > timestamp_ms AND field AND latest=1
morerecents(table, node, field, timestamp_ms) ==
    {r.id : r \in {q \in table : /\ q.node = node
                                 /\ q.timestamp > timestamp_ms
                                 /\ q.field = field
                                 /\ q.latest = 1}}

\* a variant that takes every write for the latest
checkIsLatestAlways(table, node, field, timestamp_ms) == 1

checkIsLatest(table, node, field, timestamp_ms) ==
    IF Cardinality(morerecents(table, node, field, timestamp_ms)) > 0 THEN 0 ELSE 1

\* a variant of the statement without the condition on the node
setIsLatestAnyNode(table, node, field, id) ==
    {IF r.field = field /\ r.latest = 1 /\ r.id # id
     THEN [r EXCEPT !.latest = 0] ELSE r : r \in table}

\* a variant of the UPDATE without the condition on the field
setIsLatestAnyField(table, node, field, id) ==
    {IF r.node = node /\ r.latest = 1 /\ r.id # id
     THEN [r EXCEPT !.latest = 0] ELSE r : r \in table}

\* UPDATE table SET latest=0 WHERE node AND field AND latest=1 AND id<>id
setIsLatest(table, node, field, id) ==
    {IF r.node = node /\ r.field = field /\ r.latest = 1 /\ r.id # id
     THEN [r EXCEPT !.latest = 0] ELSE r : r \in table}

\* the latest argument the insertChecked function of the type hands to setIsLatest
\* (insertCheckedDate hands none: it is undefined, which is falsy)
Truthy(latest) == latest # 0
setIsLatestArgument(type, latest) == IF type = "date" THEN 0 ELSE latest

\* insertCheckedNumber and insertCheckedBoolean do not await setIsLatest
setIsLatestAwaited(type) == type \notin {"number", "boolean"}

\* a write that its caller still waits for
Unreturned(w) == w.awaited /\ ~(w.pc = "setIsLatest" /\ ~setIsLatestAwaited(w.type))

Writer(c, id, node, timestamp, b) ==
    [client |-> c, call |-> id, path |-> b.path, node |-> node, field |-> b.field,
     type |-> b.type, value |-> b.value, timestamp |-> timestamp.ms,
     pc |-> "morerecents", latest |-> 0, id |-> 0, awaited |-> b.awaited]

(***************************************************************************)
(* initialize                                                              *)
(***************************************************************************)
\* the name of the table of a type under a prefix: prefix + "_" + TS_TABLES[type]
getTableForType(prefix, type) == [prefix |-> prefix, type |-> type]

\* SHOW TABLES LIKE pattern: in the pattern "_" stands for any one character and
\* "%" for any run of characters (escape() quotes the string, it leaves both in)
Like(pattern, name) ==
    /\ pattern.type = name.type
    /\ \/ pattern.prefix.ch = "%"
       \/ /\ pattern.prefix.len = name.prefix.len
          /\ pattern.prefix.ch \in {"_", name.prefix.ch}
ShowTablesLike(pattern, existing) == {name \in existing : Like(pattern, name)}

\* CREATE TABLE name: the statement is refused when the table exists
createTable(name, existing) == existing \cup {name}

\* createTables over the first n types: a table is created when SHOW TABLES LIKE
\* returns no row
RECURSIVE createTables(_, _, _)
createTables(prefix, n, existing) ==
    IF n = 0 THEN existing
    ELSE LET before == createTables(prefix, n - 1, existing)
             table  == getTableForType(prefix, TS_TABLES[n])
         IN  IF ShowTablesLike(table, before) # {} THEN before
             ELSE createTable(table, before)

\* the five partitions of a prefix exist
Provisioned(prefix) ==
    \A type \in Types : getTableForType(prefix, type) \in partitions

\* the prefix is set and createTables completes
initialize(c, prefix) ==
    /\ typeof(prefix) = "string" /\ prefix.len # 0
    /\ tsdbTablePrefix' = [tsdbTablePrefix EXCEPT ![c] = prefix]
    /\ partitions' = createTables(prefix, Len(TS_TABLES), partitions)
    /\ hist' = [hist EXCEPT !.initialized = @ \cup {c}]
    /\ UNCHANGED <<enableLock, tables, nextId, sessLock, calls, writers, sessStmts, ncalls>>

\* the prefix is set and a statement of createTables fails after n types have
\* been gone through: initialize throws
initializeFails(c, prefix) ==
    /\ typeof(prefix) = "string" /\ prefix.len # 0
    /\ tsdbTablePrefix[c] # prefix
    /\ tsdbTablePrefix' = [tsdbTablePrefix EXCEPT ![c] = prefix]
    /\ \E n \in 0 .. Len(TS_TABLES) - 1 :
            partitions' = createTables(prefix, n, partitions)
    /\ UNCHANGED <<enableLock, tables, nextId, sessLock, calls, writers, sessStmts,
                   ncalls, hist>>

(***************************************************************************)
(* insertObject                                                            *)
(***************************************************************************)
CanInvoke(c) == calls[c].pc \in {"idle", "done"} /\ ncalls < MaxCalls

NewCall(c, op, node, value, date, sure) ==
    [IdleCall EXCEPT !.op = op, !.id = ncalls + 1, !.node = node, !.value = value,
                     !.date = date, !.sure = sure]

\* the call fails with error e; its finally block runs unlock() and awaits it
FailAwaitingUnlock(c, call, e, h) ==
    /\ calls' = [calls EXCEPT ![c] = [call EXCEPT !.error = e,
                     !.pc = IF enableLock THEN "unlock" ELSE "done"]]
    /\ sessStmts' = sessStmts \cup unlock(c, call.id)
    /\ hist' = NoteUnlock(h, call.id)

\* the body of insertObject after lock("WRITE"): the synchronous fan-out
insertObjectFanout(c, call) ==
    LET bs == insertCheckedObject(call.node, <<>>, <<>>, call.value, call.date, TRUE)
        failed == {b \in bs : b.kind = "error" /\ b.awaited}
    IN /\ writers' = writers \cup
                       {Writer(c, call.id, call.node, call.date, b) : b \in {x \in bs : x.kind = "write"}}
       /\ IF failed = {}
          THEN calls' = [calls EXCEPT ![c] = [call EXCEPT !.pc = "run"]]
          ELSE \E b \in failed :
                 calls' = [calls EXCEPT ![c] = [call EXCEPT !.pc = "run", !.error = b.error]]

\* history: the partitions as the call found them; a removal of the node that
\* this call follows or overlaps no longer counts as the last word on the node
NoteInsert(node) ==
    [hist EXCEPT !.pre = tables,
                 !.removed = @ \ {node},
                 !.removing = @ \ {calls[d].id : d \in {e \in Clients : calls[e].node = node}}]

insertObject(c, node, value, timestamp) ==
    LET call == NewCall(c, "insertObject", node, value, timestamp, Undefined) IN
    /\ CanInvoke(c)
    /\ ncalls' = ncalls + 1
    /\ IF typeof(value) # "object"
       THEN /\ calls' = [calls EXCEPT ![c] = [call EXCEPT !.pc = "done", !.error = "InvalidArgument"]]
            /\ hist' = NoteInsert(node)
            /\ UNCHANGED <<writers, sessStmts>>
       ELSE IF NotInitialized(c)
       THEN FailAwaitingUnlock(c, call, "NotInitialized", NoteInsert(node)) /\ UNCHANGED writers
       ELSE IF enableLock
       THEN /\ calls' = [calls EXCEPT ![c] = [call EXCEPT !.pc = "lock"]]
            /\ sessStmts' = sessStmts \cup lock(c, call.id, "WRITE")
            /\ hist' = NoteInsert(node)
            /\ UNCHANGED writers
       ELSE /\ insertObjectFanout(c, call)
            /\ hist' = NoteInsert(node)
            /\ UNCHANGED sessStmts
    /\ UNCHANGED <<enableLock, partitions, tsdbTablePrefix, tables, nextId, sessLock>>

\* Promise.all of the top level settles: at the first failure, or when every
\* awaited write has returned; the finally block then runs unlock()
insertObjectJoin(c) ==
    LET call == calls[c] IN
    /\ call.op = "insertObject" /\ call.pc = "run"
    /\ \/ call.error # "none"
       \/ ~\E w \in writers : w.call = call.id /\ Unreturned(w)
    /\ calls' = [calls EXCEPT ![c].pc = IF enableLock THEN "unlock" ELSE "done"]
    /\ sessStmts' = sessStmts \cup unlock(c, call.id)
    /\ hist' = NoteUnlock(hist, call.id)
    /\ UNCHANGED <<enableLock, partitions, tsdbTablePrefix, tables, nextId, sessLock, writers, ncalls>>

(***************************************************************************)
(* The statements of a single-field write, as the backend executes them    *)
(***************************************************************************)
\* the morerecents query of checkIsLatest
ExecMorerecents(w) ==
    /\ w.pc = "morerecents"
    /\ CanRead(w.client)
    /\ writers' = (writers \ {w}) \cup
         {[w EXCEPT !.pc = "insert",
                    !.latest = checkIsLatest(tables[w.type], w.node, w.field, w.timestamp)]}
    /\ UNCHANGED <<enableLock, partitions, tsdbTablePrefix, tables, nextId, sessLock, calls,
                   sessStmts, ncalls, hist>>

\* a statement that writes while the own session holds a READ lock fails
\* (a write left over from an earlier call of the client)
WriteRefused(c) == sessLock[c] = "READ"

\* the failure of a statement of w reaches the call that awaits w, if it still runs
Rejected(w) ==
    IF w.awaited /\ calls[w.client].id = w.call /\ calls[w.client].pc = "run"
          /\ calls[w.client].error = "none"
    THEN [calls EXCEPT ![w.client].error = "BackendFailure"]
    ELSE calls

\* history: the Observation of the leaf at w.path of call w.call is written
NoteWritten(w, id) ==
    [hist EXCEPT !.written = @ \cup {[call |-> w.call, path |-> w.path, type |-> w.type, id |-> id]}]

\* sqlapi.insert of the row, then the call of setIsLatest
ExecInsert(w) ==
    LET id == nextId[w.type]
        row == [id |-> id, node |-> w.node, field |-> w.field, value |-> w.value,
                timestamp |-> w.timestamp, latest |-> w.latest]
    IN
    /\ w.pc = "insert"
    /\ CanWrite(w.client)
    /\ IF WriteRefused(w.client)
       THEN /\ writers' = writers \ {w}
            /\ calls' = Rejected(w)
            /\ UNCHANGED <<tables, nextId, hist>>
       ELSE /\ calls' = calls
            /\ hist' = NoteWritten(w, id)
            /\ tables' = [tables EXCEPT ![w.type] = @ \cup {row}]
            /\ nextId' = [nextId EXCEPT ![w.type] = @ + 1]
            /\ writers' = (writers \ {w}) \cup
                 (IF Truthy(setIsLatestArgument(w.type, w.latest))
                  THEN {[w EXCEPT !.pc = "setIsLatest", !.id = id]}
                  ELSE {})
    /\ UNCHANGED <<enableLock, partitions, tsdbTablePrefix, sessLock, sessStmts, ncalls>>

\* the UPDATE of setIsLatest
ExecSetIsLatest(w) ==
    /\ w.pc = "setIsLatest"
    /\ CanWrite(w.client)
    /\ writers' = writers \ {w}
    /\ tables' = [tables EXCEPT ![w.type] =
                    IF WriteRefused(w.client) THEN @
                    ELSE setIsLatest(@, w.node, w.field, w.id)]
    /\ calls' = IF WriteRefused(w.client) /\ setIsLatestAwaited(w.type)
                THEN Rejected(w) ELSE calls
    /\ UNCHANGED <<enableLock, partitions, tsdbTablePrefix, nextId, sessLock, sessStmts, ncalls, hist>>

(***************************************************************************)
(* convertToObject                                                         *)
(***************************************************************************)
\* the value the reader builds from the value column of a partition
Decode(type, v) ==
    CASE type = "number" -> Num(v.n)
      [] type = "string" -> Str(v.ch, v.len)
      [] type = "boolean" -> Bool(v.n # 0)
      [] type = "date" -> Date(v.n)
      [] type = "array" -> JSONparse(v)

Leaf(value, timestamp) == Obj((<<"value">> :> value) @@ (<<"timestamp">> :> timestamp))

hasOwnProperty(o, k) == o.kind = "object" /\ k \in DOMAIN o.props

SetProperty(o, k, v) ==
    IF o.kind = "object" THEN Obj((k :> v) @@ o.props) ELSE o

\* One iteration of the loop over keys: walk the segments of the key from o,
\* creating the missing objects, and set the leaf at the last one.  Yields
\* Undefined for the throw.  (Own properties set on a Date or array value met
\* on the way are not represented.)
RECURSIVE SetLeaf(_, _, _)
SetLeaf(o, segs, leaf) ==
    LET field == <<Head(segs)>> IN
    IF Len(segs) = 1 THEN SetProperty(o, field, leaf)
    ELSE IF hasOwnProperty(o, field)
    THEN IF typeof(o.props[field]) # "object" THEN Undefined
         ELSE LET sub == SetLeaf(o.props[field], Tail(segs), leaf)
              IN IF sub = Undefined THEN Undefined ELSE SetProperty(o, field, sub)
    ELSE LET sub == SetLeaf(EmptyObject, Tail(segs), leaf)
         IN IF sub = Undefined THEN Undefined ELSE SetProperty(o, field, sub)

\* The loop over the sorted keys.  The lexicographic order puts a path before
\* every path it is a proper prefix of; two paths neither of which prefixes the
\* other set different positions, so the keys are taken by increasing length.
RECURSIVE ConvertKeys(_, _, _)
ConvertKeys(result, keys, mapObject) ==
    IF keys = {} \/ result = Undefined THEN result
    ELSE LET key == CHOOSE k \in keys : \A j \in keys : Len(k) <= Len(j)
             e == mapObject[key]
         IN ConvertKeys(SetLeaf(result, key, Leaf(Decode(e.type, e.value), Date(e.timestamp))),
                        keys \ {key}, mapObject)

\* the synthesized object, or Undefined when it throws
convertToObject(mapObject) == ConvertKeys(EmptyObject, DOMAIN mapObject, mapObject)

(***************************************************************************)
(* synthesizeObject / synthesizeObjectAt                                   *)
(***************************************************************************)
\* a variant whose instant excludes the Observations written at the instant itself
ConditionBefore(call, r) ==
    IF call.op = "synthesizeObject" THEN r.latest # 0 ELSE r.timestamp < call.date.ms

\* the condition of the query: "latest<>0", or "timestamp<=" + date_ms
Condition(call, r) ==
    IF call.op = "synthesizeObject" THEN r.latest # 0 ELSE r.timestamp <= call.date.ms

\* The rows of one partition query of synthesizeObjectParameterized
SnapshotRows(call, type) == {r \in tables[type] : r.node = call.node /\ Condition(call, r)}

\* ORDER BY timestamp ASC, later rows of a field overwriting earlier ones: per
\* field the entry that remains is a row of greatest timestamp (any of them,
\* the order among equal timestamps being the backend's)
LastRows(rows) ==
    LET fields == {r.field : r \in rows} IN
    {f \in [fields -> rows] :
        \A k \in fields : /\ f[k].field = k
                          /\ \A r \in rows : r.field = k => r.timestamp <= f[k].timestamp}

\* mapLatest after the rows of one partition were assigned into it
Assign(map, type, last) ==
    [k \in DOMAIN map \cup DOMAIN last |->
        IF k \in DOMAIN last
        THEN [value |-> last[k].value, type |-> type, timestamp |-> last[k].timestamp]
        ELSE map[k]]

\* The body after lock("READ"): synthesizeObjectParameterized issues its five
\* queries, the promise is returned without await, and the finally block runs
\* unlock() at once
synthesizeStart(c, call, stmts, h) ==
    IF call.op = "synthesizeObjectAt" /\ ~isDate(call.date)
    THEN /\ calls' = [calls EXCEPT ![c] = [call EXCEPT !.error = "TypeError", !.pc = "snap"]]
         /\ sessStmts' = stmts \cup unlock(c, call.id)
         /\ hist' = NoteUnlock(h, call.id)
    ELSE IF ~isNode(call.node)
    THEN /\ calls' = [calls EXCEPT ![c] = [call EXCEPT !.error = "InvalidArgument", !.pc = "snap"]]
         /\ sessStmts' = stmts \cup unlock(c, call.id)
         /\ hist' = NoteUnlock(h, call.id)
    ELSE /\ calls' = [calls EXCEPT ![c] = [call EXCEPT !.pc = "snap", !.pend = Types]]
         /\ sessStmts' = stmts \cup unlock(c, call.id)
         /\ hist' = NoteUnlock(h, call.id)

\* history: the reads invoked after a removal of their node that is the last
\* word on the node
NoteRead(call) ==
    [hist EXCEPT !.after = IF call.node \in hist.removed THEN @ \cup {call.id} ELSE @]

\* synthesizeObject(node) when date is Undefined, synthesizeObjectAt(node, date) else
synthesize(c, op, node, date) ==
    LET call == NewCall(c, op, node, Undefined, date, Undefined) IN
    /\ CanInvoke(c)
    /\ ncalls' = ncalls + 1
    /\ IF NotInitialized(c)
       THEN FailAwaitingUnlock(c, call, "NotInitialized", NoteRead(call))
       ELSE IF enableLock
       THEN /\ calls' = [calls EXCEPT ![c] = [call EXCEPT !.pc = "lock"]]
            /\ sessStmts' = sessStmts \cup lock(c, call.id, "READ")
            /\ hist' = NoteRead(call)
       ELSE synthesizeStart(c, call, sessStmts, NoteRead(call))
    /\ UNCHANGED <<enableLock, partitions, tsdbTablePrefix, tables, nextId, sessLock, writers>>

synthesizeObject(c, node) == synthesize(c, "synthesizeObject", node, Undefined)

synthesizeObjectAt(c, node, date) == synthesize(c, "synthesizeObjectAt", node, date)

\* one of the five partition queries completes
ExecSnapshotQuery(c, type) ==
    /\ calls[c].pc = "snap" /\ type \in calls[c].pend
    /\ CanRead(c)
    /\ \E last \in LastRows(SnapshotRows(calls[c], type)) :
         calls' = [calls EXCEPT ![c].pend = @ \ {type},
                                ![c].map = Assign(@, type, last)]
    /\ UNCHANGED <<enableLock, partitions, tsdbTablePrefix, tables, nextId, sessLock, writers,
                   sessStmts, ncalls, hist>>

UnlockPending(c) ==
    \E s \in sessStmts : s.client = c /\ s.call = calls[c].id /\ s.stmt = "UNLOCK"

\* both the awaited unlock and the returned promise have settled
synthesizeReturn(c) ==
    LET call == calls[c]
        synthesized == convertToObject(call.map)
    IN
    /\ call.pc = "snap" /\ call.pend = {} /\ ~UnlockPending(c)
    /\ calls' = [calls EXCEPT ![c] =
         IF call.error # "none" THEN [call EXCEPT !.pc = "done"]
         ELSE IF synthesized = Undefined
         THEN [call EXCEPT !.pc = "done", !.error = "StructuralConflict"]
         ELSE [call EXCEPT !.pc = "done", !.result = synthesized]]
    /\ UNCHANGED <<enableLock, partitions, tsdbTablePrefix, tables, nextId, sessLock, writers,
                   sessStmts, ncalls, hist>>

(***************************************************************************)
(* exists / remove: one statement per partition, in the order of TS_TABLES *)
(***************************************************************************)
\* lock(type) is not awaited by exists and remove: its statement is in flight
\* while the loop runs; a throw of getTableForType ends the call in the loop
LoopStart(c, call, type, h) ==
    IF NotInitialized(c)
    THEN /\ calls' = [calls EXCEPT ![c] = [call EXCEPT !.pc = "done", !.error = "NotInitialized"]]
         /\ sessStmts' = sessStmts \cup unlock(c, call.id)
         /\ hist' = NoteUnlock(h, call.id)
    ELSE /\ calls' = [calls EXCEPT ![c] = [call EXCEPT !.pc = "loop", !.i = 1]]
         /\ sessStmts' = sessStmts \cup lock(c, call.id, type)
         /\ hist' = h

exists(c, node) ==
    LET call == NewCall(c, "exists", node, Undefined, Undefined, Undefined) IN
    /\ CanInvoke(c)
    /\ ncalls' = ncalls + 1
    /\ IF ~isNode(node)
       THEN /\ calls' = [calls EXCEPT ![c] = [call EXCEPT !.pc = "done", !.error = "InvalidArgument"]]
            /\ UNCHANGED <<sessStmts, hist>>
       ELSE LoopStart(c, call, "READ", NoteRead(call))
    /\ UNCHANGED <<enableLock, partitions, tsdbTablePrefix, tables, nextId, sessLock, writers>>

\* a variant of the query without the condition on the node
ExistsRowsAnyNode(call) == tables[TS_TABLES[call.i]]

\* SELECT id FROM table WHERE node, for types[i]
ExistsRows(call) == {r \in tables[TS_TABLES[call.i]] : r.node = call.node}

\* the query for types[i] completes: LIMIT 1 leaves one row or none, and the
\* loop returns true at the first row, false after the last type
ExecExistsQuery(c) ==
    LET call == calls[c]
        rows == ExistsRows(call)
    IN
    /\ call.op = "exists" /\ call.pc = "loop"
    /\ CanRead(c)
    /\ IF rows # {} \/ call.i = Len(TS_TABLES)
       THEN /\ calls' = [calls EXCEPT ![c].pc = "done", ![c].result = Bool(rows # {})]
            /\ sessStmts' = sessStmts \cup unlock(c, call.id)
            /\ hist' = NoteUnlock(hist, call.id)
       ELSE /\ calls' = [calls EXCEPT ![c].i = @ + 1]
            /\ UNCHANGED <<sessStmts, hist>>
    /\ UNCHANGED <<enableLock, partitions, tsdbTablePrefix, tables, nextId, sessLock, writers, ncalls>>

\* history: the removals invoked when every insertObject of the node had returned
NoteRemove(call) ==
    [hist EXCEPT !.removing =
        IF \E d \in Clients : /\ calls[d].op = "insertObject" /\ calls[d].node = call.node
                              /\ calls[d].pc # "done"
        THEN @ ELSE @ \cup {call.id}]

\* history: such a removal has returned
NoteRemoved(h, call) ==
    [h EXCEPT !.removed = IF call.id \in h.removing THEN @ \cup {call.node} ELSE @]

\* the value as a condition: false, 0, NaN, "", null and undefined are falsy
ToBoolean(v) ==
    CASE v.kind = "boolean" -> v.b
      [] v.kind = "number" -> v.finite /\ v.n # 0
      [] v.kind = "string" -> v.len # 0
      [] v.kind \in {"null", "undefined"} -> FALSE
      [] OTHER -> TRUE

remove(c, node, sure) ==
    LET call == NewCall(c, "remove", node, Undefined, Undefined, sure) IN
    /\ CanInvoke(c)
    /\ ncalls' = ncalls + 1
    /\ IF ~ToBoolean(sure)
       THEN /\ calls' = [calls EXCEPT ![c] = [call EXCEPT !.pc = "done", !.error = "ConfirmationRequired"]]
            /\ UNCHANGED <<sessStmts, hist>>
       ELSE IF ~isNode(node)
       THEN /\ calls' = [calls EXCEPT ![c] = [call EXCEPT !.pc = "done", !.error = "InvalidArgument"]]
            /\ UNCHANGED <<sessStmts, hist>>
       ELSE LoopStart(c, call, "WRITE", NoteRemove(call))
    /\ UNCHANGED <<enableLock, partitions, tsdbTablePrefix, tables, nextId, sessLock, writers>>

\* a variant of the statement without the condition on the node
DeleteFromAnyNode(table, node) == {}

\* DELETE FROM table WHERE node
DeleteFrom(table, node) == {r \in table : r.node # node}

\* the DELETE for types[i] completes
ExecRemoveDelete(c) ==
    LET call == calls[c]
        type == TS_TABLES[call.i]
    IN
    /\ call.op = "remove" /\ call.pc = "loop"
    /\ CanWrite(c)
    /\ IF WriteRefused(c)
       THEN /\ calls' = [calls EXCEPT ![c].pc = "done", ![c].error = "BackendFailure"]
            /\ sessStmts' = sessStmts \cup unlock(c, call.id)
            /\ hist' = NoteUnlock(hist, call.id)
            /\ UNCHANGED tables
       ELSE /\ tables' = [tables EXCEPT ![type] = DeleteFrom(@, call.node)]
            /\ IF call.i = Len(TS_TABLES)
               THEN /\ calls' = [calls EXCEPT ![c].pc = "done"]
                    /\ sessStmts' = sessStmts \cup unlock(c, call.id)
                    /\ hist' = NoteRemoved(NoteUnlock(hist, call.id), call)
               ELSE /\ calls' = [calls EXCEPT ![c].i = @ + 1]
                    /\ UNCHANGED <<sessStmts, hist>>
    /\ UNCHANGED <<enableLock, partitions, tsdbTablePrefix, nextId, sessLock, writers, ncalls>>

(***************************************************************************)
(* getSeries / search                                                      *)
(***************************************************************************)
\* the number the limit is compared with
LIMIT_BOUND == 10001

\* a field argument that is a string: "." + its segments joined by "."
FieldName(segs) == [kind |-> "string", segs |-> segs]

\* Number.isInteger(v) (the finite numbers of the model are integers)
isInteger(v) == v.kind = "number" /\ v.finite

\* !Number.isInteger(limit) || limit < 1 || limit > 10001
LimitRejected(limit) == ~isInteger(limit) \/ limit.n < 1 \/ limit.n > LIMIT_BOUND

\* the argument checks of getSeries and search after that of the limit
ArgumentsRejected(field, when) == typeof(field) # "string" \/ ~isDate(when)

\* ORDER BY timestamp DESC: the orders the backend may give the rows, those of
\* equal timestamps being in any order
OrderByTimestampDesc(rows) ==
    {s \in [1..Cardinality(rows) -> rows] :
        \A i, j \in 1..Cardinality(rows) :
            i < j => s[i] # s[j] /\ s[i].timestamp >= s[j].timestamp}

\* LIMIT n
Limit(s, n) == SubSeq(s, 1, IF n < Len(s) THEN n ELSE Len(s))

\* updateValueTypes(type, rows) on rows of columns value, timestamp
updateValueTypes(type, s) ==
    [i \in 1..Len(s) |-> [value |-> Decode(type, s[i].value), timestamp |-> Date(s[i].timestamp)]]

\* updateValueTypes(type, rows) on rows of columns node, value, timestamp
updateValueTypesOfNodes(type, s) ==
    [i \in 1..Len(s) |-> [node |-> s[i].node, value |-> Decode(type, s[i].value),
                          timestamp |-> Date(s[i].timestamp)]]

\* the rows a call returns; type and ids remember where they come from
Rows(type, s, entries) ==
    [kind |-> "rows", type |-> type, ids |-> [i \in 1..Len(s) |-> s[i].id], rows |-> entries]

NoRows == Rows("none", <<>>, <<>>)

getSeries(c, node, field, when, limit) ==
    LET call == [NewCall(c, "getSeries", node, Undefined, when, Undefined)
                    EXCEPT !.field = field, !.limit = limit]
    IN
    /\ CanInvoke(c)
    /\ ncalls' = ncalls + 1
    /\ IF ~isNode(node) \/ LimitRejected(limit) \/ ArgumentsRejected(field, when)
       THEN /\ calls' = [calls EXCEPT ![c] = [call EXCEPT !.pc = "done", !.error = "InvalidArgument"]]
            /\ UNCHANGED <<sessStmts, hist>>
       ELSE LoopStart(c, call, "READ", hist)
    /\ UNCHANGED <<enableLock, partitions, tsdbTablePrefix, tables, nextId, sessLock, writers>>

\* a variant of the query without the condition on the timestamp
SeriesRowsAnyTime(call, type) ==
    {r \in tables[type] : r.node = call.node /\ r.field = call.field.segs}

\* SELECT value, timestamp FROM table WHERE node AND field AND timestamp <= when_ms
SeriesRows(call, type) ==
    {r \in tables[type] : /\ r.node = call.node /\ r.field = call.field.segs
                          /\ r.timestamp <= call.date.ms}

\* the query of types[i] completes
ExecSeriesQuery(c) ==
    LET call == calls[c]
        type == TS_TABLES[call.i]
        rows == SeriesRows(call, type)
    IN
    /\ call.op = "getSeries" /\ call.pc = "loop"
    /\ CanRead(c)
    /\ IF rows # {}
       THEN /\ \E s \in OrderByTimestampDesc(rows) :
                 LET limited == Limit(s, call.limit.n) IN
                 calls' = [calls EXCEPT ![c].pc = "done",
                             ![c].result = Rows(type, limited, updateValueTypes(type, limited))]
            /\ sessStmts' = sessStmts \cup unlock(c, call.id)
            /\ hist' = NoteUnlock(hist, call.id)
       ELSE IF call.i = Len(TS_TABLES)
       THEN /\ calls' = [calls EXCEPT ![c].pc = "done", ![c].result = NoRows]
            /\ sessStmts' = sessStmts \cup unlock(c, call.id)
            /\ hist' = NoteUnlock(hist, call.id)
       ELSE /\ calls' = [calls EXCEPT ![c].i = @ + 1]
            /\ UNCHANGED <<sessStmts, hist>>
    /\ UNCHANGED <<enableLock, partitions, tsdbTablePrefix, tables, nextId, sessLock, writers, ncalls>>

\* the type search derives from the value ("none" when it derives none)
searchType(value) ==
    CASE typeof(value) = "string" -> "string"
      [] typeof(value) = "number" /\ value.finite -> "number"
      [] typeof(value) = "boolean" -> "boolean"
      [] isDate(value) -> "date"
      [] value.kind = "array" -> "array"
      [] OTHER -> "none"

\* value_reformed
searchValue(value) ==
    CASE searchType(value) = "string" -> Text(value.ch, value.len)
      [] searchType(value) = "number" -> Double(value.n)
      [] searchType(value) = "boolean" -> Tinyint(IF value.b THEN 1 ELSE 0)
      [] searchType(value) = "date" -> Bigint(value.ms)
      [] searchType(value) = "array" -> JsonText(JSONstringify(value))

search(c, field, value, when, limit) ==
    LET call == [NewCall(c, "search", Null, value, when, Undefined)
                    EXCEPT !.field = field, !.limit = limit]
    IN
    /\ CanInvoke(c)
    /\ ncalls' = ncalls + 1
    /\ IF LimitRejected(limit) \/ ArgumentsRejected(field, when)
       THEN /\ calls' = [calls EXCEPT ![c] = [call EXCEPT !.pc = "done", !.error = "InvalidArgument"]]
            /\ UNCHANGED <<sessStmts, hist>>
       ELSE IF searchType(value) = "none"
       THEN /\ calls' = [calls EXCEPT ![c] = [call EXCEPT !.pc = "done", !.error = "UnsupportedType"]]
            /\ UNCHANGED <<sessStmts, hist>>
       ELSE IF NotInitialized(c)
       THEN FailAwaitingUnlock(c, call, "NotInitialized", hist)
       ELSE IF enableLock
       THEN /\ calls' = [calls EXCEPT ![c] = [call EXCEPT !.pc = "lock"]]
            /\ sessStmts' = sessStmts \cup lock(c, call.id, "READ")
            /\ UNCHANGED hist
       ELSE /\ calls' = [calls EXCEPT ![c] = [call EXCEPT !.pc = "query"]]
            /\ UNCHANGED <<sessStmts, hist>>
    /\ UNCHANGED <<enableLock, partitions, tsdbTablePrefix, tables, nextId, sessLock, writers>>

\* a variant of the query without the condition on the value
SearchRowsAnyValue(call) ==
    {r \in tables[searchType(call.value)] :
        r.field = call.field.segs /\ r.timestamp <= call.date.ms}

\* SELECT node, value, timestamp FROM table WHERE field AND value AND timestamp <= when_ms
SearchRows(call) ==
    {r \in tables[searchType(call.value)] :
        /\ r.field = call.field.segs /\ r.value = searchValue(call.value)
        /\ r.timestamp <= call.date.ms}

\* the query of search completes; the finally block runs unlock() and awaits it
ExecSearchQuery(c) ==
    LET call == calls[c]
        type == searchType(call.value)
    IN
    /\ call.op = "search" /\ call.pc = "query"
    /\ CanRead(c)
    /\ \E s \in OrderByTimestampDesc(SearchRows(call)) :
         LET limited == Limit(s, call.limit.n) IN
         calls' = [calls EXCEPT ![c].pc = IF enableLock THEN "unlock" ELSE "done",
                     ![c].result = Rows(type, limited, updateValueTypesOfNodes(type, limited))]
    /\ sessStmts' = sessStmts \cup unlock(c, call.id)
    /\ hist' = NoteUnlock(hist, call.id)
    /\ UNCHANGED <<enableLock, partitions, tsdbTablePrefix, tables, nextId, sessLock, writers, ncalls>>

(***************************************************************************)
(* LOCK TABLES / UNLOCK TABLES, as the backend executes them               *)
(***************************************************************************)
\* LOCK TABLES: the session gets the lock (giving up the one it held); the
\* call that awaits it goes on
ExecLock(s) ==
    LET c == s.client
        call == calls[c]
        awaiting == call.id = s.call /\ call.pc = "lock"
    IN
    /\ s.stmt = "LOCK"
    /\ IF s.mode = "WRITE" THEN CanWrite(c) ELSE CanRead(c)
    /\ sessLock' = [sessLock EXCEPT ![c] = s.mode]
    /\ IF awaiting /\ call.op = "insertObject"
       THEN /\ insertObjectFanout(c, call)
            /\ sessStmts' = sessStmts \ {s}
            /\ UNCHANGED hist
       ELSE IF awaiting /\ call.op = "search"
       THEN /\ calls' = [calls EXCEPT ![c].pc = "query"]
            /\ sessStmts' = sessStmts \ {s}
            /\ UNCHANGED <<writers, hist>>
       ELSE IF awaiting
       THEN /\ synthesizeStart(c, call, sessStmts \ {s}, hist)
            /\ UNCHANGED writers
       ELSE /\ sessStmts' = sessStmts \ {s}
            /\ UNCHANGED <<calls, writers, hist>>
    /\ UNCHANGED <<enableLock, partitions, tsdbTablePrefix, tables, nextId, ncalls>>

\* UNLOCK TABLES: the session gives up its locks; a call that awaits it returns
ExecUnlock(s) ==
    LET c == s.client IN
    /\ s.stmt = "UNLOCK"
    /\ sessLock' = [sessLock EXCEPT ![c] = "none"]
    /\ sessStmts' = sessStmts \ {s}
    /\ calls' = IF calls[c].id = s.call /\ calls[c].pc = "unlock"
                THEN [calls EXCEPT ![c].pc = "done"] ELSE calls
    /\ UNCHANGED <<enableLock, partitions, tsdbTablePrefix, tables, nextId, writers, ncalls, hist>>

(***************************************************************************)
(* Inputs                                                                  *)
(***************************************************************************)
Prefix == Str("e", 7)

Node1 == Num(1)
Dates == {Date(t) : t \in Times}

LongString == Str("x", MAX_STRING_SIZE + 1)
\* [ "xxx...x" ] whose serialized form has MAX_ARRAY_SIZE + 1 characters
LongArray == Arr(<<Str("x", MAX_ARRAY_SIZE - 3)>>)

\* {a: v}
ObjA(v) == Obj(Prop("a", v))
\* {s: {a: v}}
ObjSA(v) == Obj(Prop("s", ObjA(v)))
\* {a: v, b: w}
ObjAB(v, w) == Obj(Prop("a", v) @@ Prop("b", w))

\* one value of each of the five types
TypedValues == {Num(1), Str("h", 5), Bool(TRUE), Date(1), Arr(<<Num(1), Num(2)>>)}

(***************************************************************************)
(* Steps shared by the specifications                                      *)
(***************************************************************************)
FirstClient == CHOOSE c \in Clients : \A d \in Clients : c <= d

\* nothing is in flight: every call has returned and every statement completed
Quiescent ==
    /\ writers = {}
    /\ sessStmts = {}
    /\ \A c \in Clients : calls[c].pc \in {"idle", "done"}

WriteSteps ==
    \/ \E w \in writers : ExecMorerecents(w)
    \/ \E w \in writers : ExecInsert(w)
    \/ \E w \in writers : ExecSetIsLatest(w)
    \/ \E c \in Clients : insertObjectJoin(c)

LockSteps ==
    \/ \E s \in sessStmts : ExecLock(s)
    \/ \E s \in sessStmts : ExecUnlock(s)

SnapshotSteps ==
    \/ \E c \in Clients, type \in Types : ExecSnapshotQuery(c, type)
    \/ \E c \in Clients : synthesizeReturn(c)

LoopSteps ==
    \/ \E c \in Clients : ExecExistsQuery(c)
    \/ \E c \in Clients : ExecRemoveDelete(c)

SeriesSteps == \E c \in Clients : ExecSeriesQuery(c)

SearchSteps == \E c \in Clients : ExecSearchQuery(c)

(***************************************************************************)
(* SpecLatest: one client writes the field .a of one node, one call after  *)
(* the other, each call invoked when nothing is in flight                  *)
(***************************************************************************)
NextLatest ==
    \/ WriteSteps
    \/ LockSteps
    \/ initialize(FirstClient, Prefix)
    \/ /\ Quiescent
       /\ \E v \in TypedValues, date \in Dates : insertObject(FirstClient, Node1, ObjA(v), date)

SpecLatest == Init /\ [][NextLatest]_vars

\* the Observations of (node, field) in a partition
Series(table, node, field) == {r \in table : r.node = node /\ r.field = field}

\* the one with the greatest timestamp, ties broken by greatest id
Greatest(rows) ==
    CHOOSE r \in rows : \A q \in rows :
        q.timestamp < r.timestamp \/ (q.timestamp = r.timestamp /\ q.id <= r.id)

\* every (node, field) lives in one partition
OneTypePerField ==
    \A t, u \in Types : \A r \in tables[t], q \in tables[u] :
        (r.node = q.node /\ r.field = q.field) => t = u

\* latest marks exactly the greatest Observation of every (node, field) of the partition
LatestIsGreatest(type) ==
    \A r \in tables[type] :
        LET rows == Series(tables[type], r.node, r.field)
        IN {q \in rows : q.latest = 1} = {Greatest(rows)}

\* C1: when the insertObject calls run one after the other, each one and its
\* statements finished before the next begins, and every (node, field) keeps one
\* value type, then after every call exactly one Observation of a (node, field)
\* has latest = true, and it is the one with the greatest timestamp, ties broken
\* by greatest id; for each of the five types.
C1_LatestUniqueness ==
    (Quiescent /\ OneTypePerField) => \A type \in Types : LatestIsGreatest(type)

\* the rows the last insertObject call has stored in a partition
Stored(type) == {r \in tables[type] : \A o \in hist.pre[type] : o.id # r.id}

\* the Observations that were latest, and later than r, when the last call began
LaterLatest(type, r) ==
    {o \in Series(hist.pre[type], r.node, r.field) : o.latest = 1 /\ o.timestamp > r.timestamp}

\* C2: with the calls run one after the other, an Observation inserted with a
\* timestamp strictly lower than that of the current latest Observation of its
\* (node, field) is stored with latest = false, and the Observation that was
\* latest is still stored with latest = true when the call has finished.
C2_OutOfOrderInsert ==
    Quiescent =>
        \A type \in Types : \A r \in Stored(type) : \A o \in LaterLatest(type, r) :
            r.latest = 0 /\ o \in tables[type]

\* an out-of-order insert has finished
C2_Witness ==
    /\ Quiescent
    /\ \E type \in Types : \E r \in Stored(type) : \E o \in LaterLatest(type, r) :
          r.latest = 0 /\ o \in tables[type]

(***************************************************************************)
(* SpecSnapshot: one client writes objects of one node, one call after the *)
(* other, and reads the node as of an instant, each call invoked when      *)
(* nothing is in flight                                                    *)
(***************************************************************************)
\* {a: 1}, {a: {value: 2}}, {b: "hhhhh"}, {a: "hhhhh"}
SnapshotObjects ==
    {ObjA(Num(1)), ObjA(Obj(Prop("value", Num(2)))),
     Obj(Prop("b", Str("h", 5))), ObjA(Str("h", 5))}

NextSnapshot ==
    \/ WriteSteps
    \/ LockSteps
    \/ SnapshotSteps
    \/ initialize(FirstClient, Prefix)
    \/ /\ Quiescent
       /\ \E value \in SnapshotObjects, date \in Dates :
            insertObject(FirstClient, Node1, value, date)
    \/ /\ Quiescent
       /\ \E date \in Dates : synthesizeObjectAt(FirstClient, Node1, date)

SpecSnapshot == Init /\ [][NextSnapshot]_vars

\* what is found in a synthesized object at a field path (Undefined when nothing)
RECURSIVE Lookup(_, _)
Lookup(o, segs) ==
    IF segs = <<>> THEN o
    ELSE IF hasOwnProperty(o, <<Head(segs)>>) THEN Lookup(o.props[<<Head(segs)>>], Tail(segs))
    ELSE Undefined

IsLeaf(x) ==
    /\ x.kind = "object"
    /\ DOMAIN x.props = {<<"value">>, <<"timestamp">>}
    /\ x.props[<<"timestamp">>].kind = "date"

\* a returned synthesizeObjectAt call of a node each field of which keeps one type
SnapshotTaken(c) ==
    /\ calls[c].op = "synthesizeObjectAt" /\ calls[c].pc = "done"
    /\ OneTypePerField

\* the Observations of the node of the call at or before its instant
Selected(c, type) ==
    {r \in tables[type] : r.node = calls[c].node /\ r.timestamp <= calls[c].date.ms}

\* the snapshot holds, for the field of Observation r of the node, the value and
\* timestamp of an Observation of greatest timestamp at or before the instant, and
\* no leaf when there is none
SnapshotRight(c, type, r) ==
    LET rows == Series(Selected(c, type), r.node, r.field)
        found == Lookup(calls[c].result, r.field)
    IN /\ calls[c].error = "none"
       /\ IF rows = {} THEN ~IsLeaf(found)
          ELSE \E g \in rows :
                 /\ \A q \in rows : q.timestamp <= g.timestamp
                 /\ found = Leaf(Decode(type, g.value), Date(g.timestamp))

\* C3 as stated: after completed sequential insertObject calls in which each
\* field keeps one value type, synthesizeObjectAt(node, T) returns for every
\* field path with an Observation at or before T a leaf with the value and
\* timestamp of the Observation of greatest timestamp at or before T, and no
\* leaf for a field whose Observations are all later than T.
C3_SnapshotAtInstant_Stated ==
    \A c \in Clients : SnapshotTaken(c) =>
        \A type \in Types : \A r \in tables[type] :
            r.node = calls[c].node => SnapshotRight(c, type, r)

IsProperPrefix(f, g) == Len(f) < Len(g) /\ SubSeq(g, 1, Len(f)) = f

\* no selected field path is a proper prefix of another selected field path
NoStructuralConflict(c) ==
    \A t, u \in Types : \A r \in Selected(c, t), q \in Selected(c, u) :
        ~IsProperPrefix(r.field, q.field)

\* C3 (amended): the same, provided no field path with an Observation at or
\* before T is a proper prefix of another such field path.
C3_SnapshotAtInstant ==
    \A c \in Clients : (SnapshotTaken(c) /\ NoStructuralConflict(c)) =>
        \A type \in Types : \A r \in tables[type] :
            r.node = calls[c].node => SnapshotRight(c, type, r)

\* a snapshot was taken between two writes of a field, and of a nested field
C3_Witness ==
    \E c \in Clients :
        /\ SnapshotTaken(c) /\ NoStructuralConflict(c)
        /\ \E r, q \in tables["number"] :
              /\ r.node = calls[c].node /\ q.node = r.node /\ q.field = r.field
              /\ r.timestamp <= calls[c].date.ms /\ q.timestamp > calls[c].date.ms
              /\ IsLeaf(Lookup(calls[c].result, r.field))

(***************************************************************************)
(* SpecInsert: one client calls insertObject, awaiting each call before    *)
(* the next; what a call left in flight goes on while the next call runs   *)
(***************************************************************************)
\* {a: 1}, {s: {a: 1}}, {a: 1, b: <long string>}, {a: <long string>, b: <long array>},
\* {s: {a: <long string>}}, {a: NaN}, {a: 1, <long name>: 1}
InsertObjects ==
    {ObjA(Num(1)), ObjSA(Num(1)), ObjAB(Num(1), LongString), ObjAB(LongString, LongArray),
     ObjSA(LongString), ObjA(NaN), Obj(Prop("a", Num(1)) @@ Prop(LongName, Num(1)))}

\* a string of MAX_ID_SIZE characters, which is no node
LongNode == Str("n", MAX_ID_SIZE)

\* the arguments of the calls: each object at an instant, and {a: 1} and {}
\* with a timestamp that is no instant, and {a: 1} with a node that is none
InsertArguments ==
    {<<Node1, value, Date(1)>> : value \in InsertObjects}
        \cup {<<Node1, ObjA(Num(1)), Num(1)>>, <<Node1, EmptyObject, Num(1)>>,
              <<LongNode, ObjA(Num(1)), Date(1)>>}

NextInsert ==
    \/ WriteSteps
    \/ LockSteps
    \/ initialize(FirstClient, Prefix)
    \/ \E args \in InsertArguments : insertObject(FirstClient, args[1], args[2], args[3])

SpecInsert == Init /\ [][NextInsert]_vars

\* the paths of the leaves of an inserted value: what is no plain object
RECURSIVE LeafPaths(_, _)
LeafPaths(value, path) ==
    IF value.kind = "object"
    THEN UNION {LeafPaths(value.props[k], Append(path, k)) : k \in DOMAIN value.props}
    ELSE {path}

RECURSIVE ValueAt(_, _)
ValueAt(value, path) ==
    IF path = <<>> THEN value ELSE ValueAt(value.props[Head(path)], Tail(path))

RECURSIVE FieldOf(_)
FieldOf(path) == IF path = <<>> THEN <<>> ELSE Head(path) \o FieldOf(Tail(path))

Returned(c) == calls[c].op = "insertObject" /\ calls[c].pc = "done"

\* the Observation of the leaf at path of the call of client c is written
Written(c, path) == \E x \in hist.written : x.call = calls[c].id /\ x.path = path

\* a statement of a single-field write of the call of client c is pending
Pending(c) == {w \in writers : w.call = calls[c].id}

\* C4: when an insertObject call returns successfully, the Observation of
\* every leaf of the inserted object, at every nesting depth, is written, and
\* no write belonging to the call is still pending.
C4_InsertCompletion ==
    \A c \in Clients : (Returned(c) /\ calls[c].error = "none") =>
        /\ \A path \in LeafPaths(calls[c].value, <<>>) : Written(c, path)
        /\ Pending(c) = {}

LockCompleted(id) == ~\E s \in sessStmts : s.call = id /\ s.stmt = "LOCK"
UnlockIssued(id) == id \in hist.unlocked

\* C7: with the locking mode enabled, every data statement of an operation
\* (a pending statement of a single-field write, a pending partition read, a
\* pending statement of the loop over the partitions) is issued after the lock
\* statement of the operation has completed and has completed before the
\* unlock statement of the operation is issued.
C7_LockBracketing ==
    enableLock =>
        /\ \A w \in writers : LockCompleted(w.call) /\ ~UnlockIssued(w.call)
        /\ \A c \in Clients :
             (calls[c].pc = "loop" \/ (calls[c].pc = "snap" /\ calls[c].pend # {})) =>
                 LockCompleted(calls[c].id) /\ ~UnlockIssued(calls[c].id)

ValidationErrors == {"InvalidArgument", "ValueTooLarge", "UnsupportedType"}

Oversized(v) ==
    \/ v.kind = "string" /\ v.len > MAX_STRING_SIZE
    \/ v.kind = "array" /\ JSONstringify(v).length > MAX_ARRAY_SIZE

Unsupported(v) ==
    \/ v.kind = "number" /\ ~v.finite
    \/ v.kind \notin {"number", "string", "boolean", "date", "array", "object"}

\* the leaf at path of the call of client c passes the validation
ValidLeaf(c, path) ==
    LET v == ValueAt(calls[c].value, path) IN
    /\ isDate(calls[c].date) /\ isNode(calls[c].node)
    /\ FieldLength(FieldOf(path)) \in 1..MAX_FIELD_SIZE
    /\ ~Oversized(v) /\ ~Unsupported(v)

\* the call of client c has failed with a validation error
FailedValidation(c) ==
    /\ calls[c].op = "insertObject" /\ calls[c].pc \in {"unlock", "done"}
    /\ calls[c].error \in ValidationErrors

\* C8 as stated: whenever an insertObject call fails with a validation error,
\* no backend statement has been issued for the call and no Observation of the
\* call is ever written, valid sibling fields included.
C8_ValidationPrecedes_Stated ==
    \A c \in Clients : FailedValidation(c) =>
        /\ Pending(c) = {}
        /\ ~\E x \in hist.written : x.call = calls[c].id
        /\ ~\E s \in sessStmts : s.call = calls[c].id
        /\ ~UnlockIssued(calls[c].id)

\* C8 (amended): whenever an insertObject call fails with a validation error,
\* no data statement has been issued and no Observation is ever written for a
\* leaf that does not pass the validation: every statement and Observation of
\* the call belongs to a leaf that is itself valid.
C8_ValidationPrecedes ==
    \A c \in Clients : FailedValidation(c) =>
        /\ \A w \in Pending(c) : ValidLeaf(c, w.path)
        /\ \A path \in LeafPaths(calls[c].value, <<>>) : Written(c, path) => ValidLeaf(c, path)

\* a call has failed on a too large value after the Observation of its valid
\* sibling was written
C8_Witness ==
    \E c \in Clients :
        /\ Returned(c) /\ calls[c].error = "ValueTooLarge"
        /\ \E path, other \in LeafPaths(calls[c].value, <<>>) :
              /\ ~ValidLeaf(c, path) /\ ~Written(c, path)
              /\ Written(c, other)

\* an insertObject call of an initialized client with a node and an instant
ReturnedChecked(c) ==
    /\ Returned(c) /\ calls[c].error # "NotInitialized"
    /\ isDate(calls[c].date) /\ isNode(calls[c].node)

\* C9: insertObject of an object that contains, at any nesting depth, a string
\* leaf longer than MAX_STRING_SIZE or an array leaf whose serialized form is
\* longer than MAX_ARRAY_SIZE fails with ValueTooLarge, and no Observation is
\* written for that leaf.
C9_OversizedRejected ==
    \A c \in Clients : ReturnedChecked(c) =>
        \A path \in LeafPaths(calls[c].value, <<>>) :
            Oversized(ValueAt(calls[c].value, path)) =>
                calls[c].error = "ValueTooLarge" /\ ~Written(c, path)

\* C10: insertObject of an object containing a leaf that is a non-finite
\* number, or a value that is none of number, string, boolean, date, array or
\* plain object, fails with UnsupportedType and writes no Observation for
\* that leaf.
C10_UnsupportedRejected ==
    \A c \in Clients : ReturnedChecked(c) =>
        \A path \in LeafPaths(calls[c].value, <<>>) :
            Unsupported(ValueAt(calls[c].value, path)) =>
                calls[c].error = "UnsupportedType" /\ ~Written(c, path)

(***************************************************************************)
(* SpecDelete: one client writes a nested field of a node, removes the     *)
(* node and reads it, awaiting each call before the next                   *)
(***************************************************************************)
\* true, false, and 1, which is not true
Confirmations == {Bool(TRUE), Bool(FALSE), Num(1)}

NextDelete ==
    \/ WriteSteps
    \/ LockSteps
    \/ SnapshotSteps
    \/ LoopSteps
    \/ initialize(FirstClient, Prefix)
    \/ insertObject(FirstClient, Node1, ObjSA(Str("h", 5)), Date(1))
    \/ \E sure \in Confirmations : remove(FirstClient, Node1, sure)
    \/ exists(FirstClient, Node1)
    \/ synthesizeObject(FirstClient, Node1)

SpecDelete == Init /\ [][NextDelete]_vars

\* a read of a node that has returned, invoked after a remove(node, true) that
\* returned, no insertObject of the node being invoked after that remove was
Read(c) ==
    /\ calls[c].op \in {"exists", "synthesizeObject"} /\ calls[c].pc = "done"
    /\ calls[c].id \in hist.after

\* C5: once remove(node, true) has returned, and no insertObject of the node
\* is invoked afterwards (those that returned earlier are allowed), exists(node)
\* returns false and synthesizeObject(node) returns an empty structure.
C5_Deletion ==
    \A c \in Clients : Read(c) =>
        /\ calls[c].error = "none"
        /\ calls[c].op = "exists" => calls[c].result = Bool(FALSE)
        /\ calls[c].op = "synthesizeObject" => calls[c].result = EmptyObject

(***************************************************************************)
(* SpecRace: two clients write the string field .a of one node at the same *)
(* time                                                                    *)
(***************************************************************************)
SecondClient == CHOOSE c \in Clients \ {FirstClient} : \A d \in Clients \ {FirstClient} : c <= d

NextRace ==
    \/ WriteSteps
    \/ LockSteps
    \/ \E c \in {FirstClient, SecondClient} : initialize(c, Prefix)
    \/ \E c \in {FirstClient, SecondClient}, date \in Dates :
         insertObject(c, Node1, ObjA(Str("h", 5)), date)

SpecRace == Init /\ [][NextRace]_vars

\* C6: with the locking mode disabled, for any interleaving of two concurrent
\* single-field writes to the same (node, field) of the same type, once both
\* writes and their demotion steps have completed, exactly one Observation of
\* the (node, field) has latest = true and it is the one with the greatest
\* timestamp, ties broken by greatest id.
C6_LatestRaceTransient ==
    (~enableLock /\ Quiescent) => \A type \in Types : LatestIsGreatest(type)

(***************************************************************************)
(* Snapshots of SpecSnapshot: conflicts and fields that changed their type *)
(***************************************************************************)
\* a synthesizeObjectAt call of an initialized client has returned
SnapshotReturned(c) ==
    /\ calls[c].op = "synthesizeObjectAt" /\ calls[c].pc = "done"
    /\ calls[c].error # "NotInitialized"

\* C11: when the Observations selected for a snapshot contain a field path
\* that is a leaf (.a) and another path that has it as a proper prefix (.a.b),
\* synthesizeObject / synthesizeObjectAt fails with StructuralConflict and
\* returns no object.
C11_StructuralConflict ==
    \A c \in Clients : (SnapshotReturned(c) /\ ~NoStructuralConflict(c)) =>
        calls[c].error = "StructuralConflict" /\ calls[c].result = Undefined

\* the selected Observations of a field of the node of the call, over all partitions
SelectedOfField(c, field) ==
    UNION {{[type |-> type, row |-> r] : r \in Series(Selected(c, type), calls[c].node, field)}
           : type \in Types}

\* C13: when Observations of the same (node, field) exist in more than one
\* partition, the snapshot leaf of the field is the selected Observation with
\* the greatest timestamp over all partitions, whatever the order in which the
\* five partition queries complete.
C13_SnapshotMerge ==
    \A c \in Clients : (SnapshotReturned(c) /\ NoStructuralConflict(c)) =>
        \A type \in Types : \A r \in Selected(c, type) :
            \E g \in SelectedOfField(c, r.field) :
                /\ \A q \in SelectedOfField(c, r.field) : q.row.timestamp <= g.row.timestamp
                /\ Lookup(calls[c].result, r.field)
                     = Leaf(Decode(g.type, g.row.value), Date(g.row.timestamp))

(***************************************************************************)
(* SpecRoundTrip: one client writes one object of a fresh node; when all   *)
(* its writes have completed another client reads the node                 *)
(***************************************************************************)
\* an attribute name that contains a dot, "a.b": its segments
DottedName == <<"a", "b">>

\* {a: 1}, {s: {a: "hhhhh"}}, {a: 1, b: true}, {a: 1, s: {a: <date>}}, {s: {}}, {"a.b": 1}
RoundTripObjects ==
    {ObjA(Num(1)), ObjSA(Str("h", 5)), ObjAB(Num(1), Bool(TRUE)),
     Obj(Prop("a", Num(1)) @@ Prop("s", ObjA(Date(1)))),
     Obj(Prop("s", EmptyObject)), Obj(DottedName :> Num(1))}

NextRoundTrip ==
    \/ WriteSteps
    \/ LockSteps
    \/ SnapshotSteps
    \/ \E c \in {FirstClient, SecondClient} : initialize(c, Prefix)
    \/ /\ Quiescent /\ ncalls = 0
       /\ \E value \in RoundTripObjects, date \in Dates :
            insertObject(FirstClient, Node1, value, date)
    \/ /\ Quiescent /\ ncalls = 1
       /\ synthesizeObject(SecondClient, Node1)

SpecRoundTrip == Init /\ [][NextRoundTrip]_vars

\* O with each leaf v replaced by {value: v, timestamp: T}
RECURSIVE Wrap(_, _)
Wrap(value, timestamp) ==
    IF value.kind = "object"
    THEN Obj([k \in DOMAIN value.props |-> Wrap(value.props[k], timestamp)])
    ELSE Leaf(value, timestamp)

\* no path of O is both a leaf and a prefix of another path
NoLeafPrefix(value) ==
    \A p, q \in LeafPaths(value, <<>>) : ~IsProperPrefix(FieldOf(p), FieldOf(q))

\* the first call wrote an object for the fresh node and the second call, made
\* when every write had completed, has read the node
RoundTripDone ==
    /\ calls[FirstClient].op = "insertObject" /\ calls[FirstClient].id = 1
    /\ calls[FirstClient].error = "none"
    /\ calls[SecondClient].op = "synthesizeObject" /\ calls[SecondClient].id = 2
    /\ calls[SecondClient].pc = "done" /\ calls[SecondClient].error # "NotInitialized"

\* C12: for every nested object O in which no path is both a leaf and a prefix
\* of another path, inserting O for a fresh node at timestamp T and then, after
\* all writes have completed, calling synthesizeObject(node) returns an object
\* with the nesting and attribute names of O in which each leaf v is replaced
\* by {value: v, timestamp: T}; empty nested objects and attribute names
\* containing a dot included.
C12_RoundTrip ==
    (RoundTripDone /\ NoLeafPrefix(calls[FirstClient].value)) =>
        calls[SecondClient].result = Wrap(calls[FirstClient].value, calls[FirstClient].date)

(***************************************************************************)
(* SpecSeries: one client writes the field .a of one node, one call after  *)
(* the other, and reads the series of the field                            *)
(***************************************************************************)
FieldA == FieldName(<<"a">>)

\* {a: 1}, {a: 2}, {a: "hhhhh"}
SeriesObjects == {ObjA(Num(1)), ObjA(Num(2)), ObjA(Str("h", 5))}

SeriesLimits == {Num(1), Num(2)}

NextSeries ==
    \/ WriteSteps
    \/ LockSteps
    \/ SeriesSteps
    \/ initialize(FirstClient, Prefix)
    \/ /\ Quiescent
       /\ \E value \in SeriesObjects, date \in Dates :
            insertObject(FirstClient, Node1, value, date)
    \/ /\ Quiescent
       /\ \E when \in Dates, limit \in SeriesLimits :
            getSeries(FirstClient, Node1, FieldA, when, limit)

SpecSeries == Init /\ [][NextSeries]_vars

SeriesReturned(c) ==
    calls[c].op = "getSeries" /\ calls[c].pc = "done" /\ calls[c].error = "none"

\* the Observations of the (node, field) of the call at or before its instant
\* in the partition its result comes from
SeriesCandidates(c) ==
    IF calls[c].result.type = "none" THEN {}
    ELSE {r \in tables[calls[c].result.type] :
            /\ r.node = calls[c].node /\ r.field = calls[c].field.segs
            /\ r.timestamp <= calls[c].date.ms}

\* the result has at most limit entries, each an Observation of (node, field)
\* at or before the instant, and they are the limit most recent of them
SeriesMostRecent(c) ==
    LET res == calls[c].result
        n == Len(res.rows)
        from == SeriesCandidates(c)
    IN /\ n <= calls[c].limit.n
       /\ n = Cardinality(from) \/ n = calls[c].limit.n
       /\ \A i \in 1..n : \E r \in from :
             /\ r.id = res.ids[i]
             /\ res.rows[i] = [value |-> Decode(res.type, r.value), timestamp |-> Date(r.timestamp)]
       /\ \A i, j \in 1..n : i < j => res.ids[i] # res.ids[j]
       /\ \A r \in from : (\A i \in 1..n : res.ids[i] # r.id) =>
             \A i \in 1..n : r.timestamp <= res.rows[i].timestamp.ms

\* C14 as stated: getSeries(node, field, instant, limit) returns at most limit
\* entries, all of (node, field), all with timestamp <= instant, strictly
\* ordered by descending timestamp, and they are the limit most recent such
\* Observations of the partition they come from.
C14_SeriesOrdering_Stated ==
    \A c \in Clients : SeriesReturned(c) =>
        /\ SeriesMostRecent(c)
        /\ \A i, j \in 1..Len(calls[c].result.rows) :
             i < j => calls[c].result.rows[i].timestamp.ms > calls[c].result.rows[j].timestamp.ms

\* C14 (amended): the same, the entries being ordered by descending timestamp
\* with entries of equal timestamps next to each other (two Observations of a
\* field may have the same timestamp).
C14_SeriesOrdering ==
    \A c \in Clients : SeriesReturned(c) =>
        /\ SeriesMostRecent(c)
        /\ \A i, j \in 1..Len(calls[c].result.rows) :
             i < j => calls[c].result.rows[i].timestamp.ms >= calls[c].result.rows[j].timestamp.ms

\* a series was cut by the limit: the field has a more recent and an older
\* Observation at or before the instant, and the more recent one is returned
C14_Witness ==
    \E c \in Clients :
        /\ SeriesReturned(c)
        /\ Len(calls[c].result.rows) = 1
        /\ \E r \in SeriesCandidates(c) : r.timestamp < calls[c].result.rows[1].timestamp.ms

(***************************************************************************)
(* SpecSearch: one client writes the field .a of one node, one call after  *)
(* the other, and searches the field for a value                           *)
(***************************************************************************)
\* {a: 1}, {a: 2}, {a: true}
SearchObjects == {ObjA(Num(1)), ObjA(Num(2)), ObjA(Bool(TRUE))}

SearchValues == {Num(1), Bool(TRUE)}

NextSearch ==
    \/ WriteSteps
    \/ LockSteps
    \/ SearchSteps
    \/ initialize(FirstClient, Prefix)
    \/ /\ Quiescent
       /\ \E value \in SearchObjects, date \in Dates :
            insertObject(FirstClient, Node1, value, date)
    \/ /\ Quiescent
       /\ \E value \in SearchValues, when \in Dates, limit \in SeriesLimits :
            search(FirstClient, FieldA, value, when, limit)

SpecSearch == Init /\ [][NextSearch]_vars

SearchReturned(c) ==
    calls[c].op = "search" /\ calls[c].pc = "done" /\ calls[c].error = "none"

\* the Observations of the partition of the type of the searched value whose
\* field is the searched one, whose value is the encoding of the searched one
\* and whose timestamp is at or before the instant
SearchMatches(c) ==
    {r \in tables[calls[c].value.kind] :
        /\ r.field = calls[c].field.segs
        /\ r.value = searchValue(calls[c].value)
        /\ r.timestamp <= calls[c].date.ms}

\* C15: search(field, value, instant, limit) returns at most limit rows, each
\* an Observation of the partition of the type of value whose field is field,
\* whose stored value is the encoding of value and whose timestamp is
\* <= instant, ordered by descending timestamp; never an Observation of a
\* partition of another type.
C15_SearchCorrectness ==
    \A c \in Clients : SearchReturned(c) =>
        LET res == calls[c].result
            n == Len(res.rows)
        IN /\ n <= calls[c].limit.n
           /\ res.type = calls[c].value.kind
           /\ \A i \in 1..n : \E r \in SearchMatches(c) :
                 /\ r.id = res.ids[i]
                 /\ res.rows[i] = [node |-> r.node, value |-> calls[c].value,
                                   timestamp |-> Date(r.timestamp)]
           /\ \A i, j \in 1..n :
                 i < j => res.rows[i].timestamp.ms >= res.rows[j].timestamp.ms

\* a search has returned an Observation while another partition holds an
\* Observation of the field at or before the instant
C15_Witness ==
    \E c \in Clients :
        /\ SearchReturned(c)
        /\ Len(calls[c].result.rows) > 0
        /\ \E type \in Types \ {calls[c].value.kind} : \E r \in tables[type] :
              r.field = calls[c].field.segs /\ r.timestamp <= calls[c].date.ms

(***************************************************************************)
(* Failed insertObject calls of SpecInsert                                 *)
(***************************************************************************)
\* the single-field writes of the call of client c that its Promise.all
\* joins and that have not written their Observation yet
Unwritten(c) == {w \in Pending(c) : w.awaited /\ w.pc \in {"morerecents", "insert"}}

\* C16: when one branch of the fan-out of an insertObject call fails, the call
\* does not return the failure to the caller until every sibling branch in
\* flight has completed or failed; no Observation of the call is written
\* after the call has returned.
C16_FanoutJoin ==
    \A c \in Clients : (Returned(c) /\ calls[c].error # "none") => Unwritten(c) = {}

\* C18: for every object, the empty object included, insertObject(node,
\* object, timestamp) with a timestamp that is no instant fails with
\* InvalidArgument and writes no Observation.
C18_InvalidTimestamp ==
    \A c \in Clients :
        (Returned(c) /\ ~isDate(calls[c].date) /\ calls[c].error # "NotInitialized") =>
            /\ calls[c].error = "InvalidArgument"
            /\ ~\E x \in hist.written : x.call = calls[c].id

(***************************************************************************)
(* remove calls of SpecDelete                                              *)
(***************************************************************************)
\* a remove call of an initialized client
Removing(c) == calls[c].op = "remove" /\ calls[c].error # "NotInitialized"

\* the DELETE of a partition by a remove call that goes on without failure
\* leaves no Observation of the node in the partition
DeletesPartition(c) ==
    (/\ Removing(c) /\ calls[c].pc = "loop"
     /\ calls'[c] # calls[c] /\ calls'[c].error = "none") =>
        \A r \in tables'[TS_TABLES[calls[c].i]] : r.node # calls[c].node

\* C17: remove(node, confirmed) with confirmed other than true fails with
\* ConfirmationRequired and deletes no Observation from any partition; with
\* confirmed = true and no backend failure it deletes every Observation of
\* node from all five partitions, one partition after the other.
C17_RemoveConfirmation ==
    /\ [](\A c \in Clients : (Removing(c) /\ calls[c].sure # Bool(TRUE)) =>
            calls[c].error = "ConfirmationRequired" /\ calls[c].pc = "done")
    /\ [][\A c \in Clients : DeletesPartition(c)]_vars

(***************************************************************************)
(* SpecLimit: one client calls getSeries and search with limits in and out *)
(* of the range, awaiting each call before the next                        *)
(***************************************************************************)
\* 0, 1, 10000, 10001, 10002, NaN, "5"
LimitValues ==
    {Num(0), Num(1), Num(LIMIT_BOUND - 1), Num(LIMIT_BOUND), Num(LIMIT_BOUND + 1), NaN,
     Str("5", 1)}

NextLimit ==
    \/ LockSteps
    \/ SeriesSteps
    \/ SearchSteps
    \/ initialize(FirstClient, Prefix)
    \/ \E limit \in LimitValues : getSeries(FirstClient, Node1, FieldA, Date(1), limit)
    \/ \E limit \in LimitValues : search(FirstClient, FieldA, Num(1), Date(1), limit)

SpecLimit == Init /\ [][NextLimit]_vars

\* an integer in the range 1..10000
LimitInRange(limit) ==
    limit.kind = "number" /\ limit.finite /\ 1 <= limit.n /\ limit.n < LIMIT_BOUND

\* C19: getSeries and search fail with InvalidArgument, before any backend
\* call, whenever limit is not an integer in the range 1..10000; limit = 0 and
\* limit = 10001 are both rejected.
C19_LimitBound ==
    \A c \in Clients :
        (calls[c].op \in {"getSeries", "search"} /\ ~LimitInRange(calls[c].limit)) =>
            /\ calls[c].error = "InvalidArgument" /\ calls[c].pc = "done"
            /\ ~UnlockIssued(calls[c].id)
            /\ ~\E st \in sessStmts : st.call = calls[c].id

(***************************************************************************)
(* SpecInit: one client calls the data operations, awaiting each call      *)
(* before the next, before and after initialize, which may fail once       *)
(* another process has provisioned the store                               *)
(***************************************************************************)
NextInit ==
    \/ WriteSteps
    \/ LockSteps
    \/ SnapshotSteps
    \/ LoopSteps
    \/ SeriesSteps
    \/ SearchSteps
    \/ initialize(FirstClient, Prefix)
    \/ initialize(SecondClient, Prefix)
    \/ Provisioned(Prefix) /\ initializeFails(FirstClient, Prefix)
    \/ insertObject(FirstClient, Node1, ObjA(Str("h", 5)), Date(1))
    \/ synthesizeObject(FirstClient, Node1)
    \/ synthesizeObjectAt(FirstClient, Node1, Date(1))
    \/ getSeries(FirstClient, Node1, FieldA, Date(1), Num(1))
    \/ search(FirstClient, FieldA, Str("h", 5), Date(1), Num(1))
    \/ exists(FirstClient, Node1)
    \/ remove(FirstClient, Node1, Bool(TRUE))

SpecInit == Init /\ [][NextInit]_vars

\* C20: every public data operation invoked before an initialize call has
\* completed successfully fails with NotInitialized and reads or writes no
\* Observation, also when the only earlier initialize call failed.
C20_NotInitialized ==
    \A c \in Clients : (c \notin hist.initialized /\ calls[c].op # "none") =>
        /\ calls[c].error = "NotInitialized"
        /\ calls[c].pc \in {"unlock", "done"}
        /\ Pending(c) = {}

(***************************************************************************)
(* SpecProvision: two processes provision one database, the first under    *)
(* the prefix "eeeeeee" and the second under the prefix "_______"; an      *)
(* initialize call may fail part way and be made again; the first, once    *)
(* initialized, inserts objects, awaiting each call before the next        *)
(***************************************************************************)
WildPrefix == Str("_", Prefix.len)

ProvisionObjects == {ObjA(Num(1)), ObjA(Str("h", 5))}

NextProvision ==
    \/ WriteSteps
    \/ LockSteps
    \/ initialize(FirstClient, Prefix)
    \/ initializeFails(FirstClient, Prefix)
    \/ initialize(SecondClient, WildPrefix)
    \/ initializeFails(SecondClient, WildPrefix)
    \/ /\ FirstClient \in hist.initialized
       /\ Quiescent
       /\ \E o \in ProvisionObjects, d \in Dates : insertObject(FirstClient, Node1, o, d)

SpecProvision == Init /\ [][NextProvision]_vars

\* the partitions a prefix names
PartitionsOf(prefix) == {getTableForType(prefix, type) : type \in Types}

\* C21: initialize(prefix) creates exactly those of the five partitions of the
\* prefix that do not yet exist and leaves the existing partitions and their
\* Observations unchanged: after a successful call the five partitions exist
\* and a further call creates nothing, and a call adds partitions of its
\* prefix only and changes no Observation.
C21_IdempotentProvisioning ==
    /\ [](\A c \in hist.initialized :
            /\ Provisioned(tsdbTablePrefix[c])
            /\ createTables(tsdbTablePrefix[c], Len(TS_TABLES), partitions) = partitions)
    /\ [][/\ partitions \subseteq partitions'
          /\ partitions' # partitions =>
                /\ tables' = tables /\ nextId' = nextId
                /\ \E c \in Clients :
                      partitions' \ partitions \subseteq PartitionsOf(tsdbTablePrefix'[c])]_vars

\* the same for the first process alone, whose prefix has no "_" and no "%"
ProvisioningOfPlainPrefix ==
    /\ [](FirstClient \in hist.initialized =>
            /\ Provisioned(Prefix)
            /\ createTables(Prefix, Len(TS_TABLES), partitions) = partitions)
    /\ [][/\ partitions \subseteq partitions'
          /\ partitions' # partitions => tables' = tables /\ nextId' = nextId]_vars

(***************************************************************************)
(* SpecExists: one client writes numbers and booleans to two nodes,        *)
(* removes the nodes and asks whether they exist; each call is made when   *)
(* every statement of the earlier calls has completed                      *)
(***************************************************************************)
Node2 == Num(2)
ExistsNodes == {Node1, Node2}
ExistsObjects == {ObjA(Num(1)), ObjA(Bool(TRUE))}

NextExists ==
    \/ WriteSteps
    \/ LockSteps
    \/ LoopSteps
    \/ initialize(FirstClient, Prefix)
    \/ /\ Quiescent
       /\ \E node \in ExistsNodes :
            \/ \E o \in ExistsObjects : insertObject(FirstClient, node, o, Date(1))
            \/ exists(FirstClient, node)
            \/ remove(FirstClient, node, Bool(TRUE))

SpecExists == Init /\ [][NextExists]_vars

\* the partitions hold an Observation of the node
Holds(node) == \E type \in Types : \E r \in tables[type] : r.node = node

\* an exists call that has returned a result
ExistsReturned(c) ==
    calls[c].op = "exists" /\ calls[c].pc = "done" /\ calls[c].error = "none"

\* C22: exists(node) returns true if and only if at least one of the five
\* partitions holds an Observation of the node at the time of the call, no
\* writer being active during the call.
C22_Exists ==
    \A c \in Clients : ExistsReturned(c) => calls[c].result = Bool(Holds(calls[c].node))

\* exists has returned false for a node while the store holds Observations of
\* another node
C22_Witness ==
    \E c \in Clients :
        /\ ExistsReturned(c) /\ calls[c].result = Bool(FALSE)
        /\ \E node \in ExistsNodes \ {calls[c].node} : Holds(node)

(***************************************************************************)
(* SpecFrame: one client writes objects that name the field a or the field *)
(* b of a node, or a field below a, and reads the node, each call invoked  *)
(* when nothing is in flight                                               *)
(***************************************************************************)
\* {a: 1}, {b: 2}, {b: "hhhhh"}, {a: {value: 2}}
FrameObjects ==
    {ObjA(Num(1)), Obj(Prop("b", Num(2))), Obj(Prop("b", Str("h", 5))),
     ObjA(Obj(Prop("value", Num(2))))}

NextFrame ==
    \/ WriteSteps
    \/ LockSteps
    \/ SnapshotSteps
    \/ initialize(FirstClient, Prefix)
    \/ /\ Quiescent
       /\ \E value \in FrameObjects, date \in Dates :
            insertObject(FirstClient, Node1, value, date)
    \/ /\ Quiescent
       /\ \/ synthesizeObject(FirstClient, Node1)
          \/ \E date \in Dates : synthesizeObjectAt(FirstClient, Node1, date)

SpecFrame == Init /\ [][NextFrame]_vars

\* a snapshot of the node that has returned, taken after an insertObject call
\* that found Observations of the node in the store
FrameRead(c) ==
    /\ calls[c].op \in {"synthesizeObject", "synthesizeObjectAt"} /\ calls[c].pc = "done"
    /\ \E type \in Types : \E r \in hist.pre[type] : r.node = calls[c].node

\* the field paths the last insertObject call wrote
Named == {r.field : r \in UNION {Stored(type) : type \in Types}}

\* the Observations of a partition, as the last insertObject call found it,
\* that the query of the snapshot selects
SelectedBefore(c, type) ==
    {r \in hist.pre[type] : r.node = calls[c].node /\ Condition(calls[c], r)}

\* the leaves a snapshot taken before the last insertObject call could hold at
\* a field path: per partition, an Observation of greatest timestamp
LeavesBefore(c, field) ==
    UNION {{Leaf(Decode(type, g.value), Date(g.timestamp)) :
                g \in {r \in SelectedBefore(c, type) :
                         /\ r.field = field
                         /\ \A q \in SelectedBefore(c, type) :
                               q.field = field => q.timestamp <= r.timestamp}} :
           type \in Types}

\* the field paths at which that snapshot held a leaf
LeafPathsBefore(c) ==
    LET fields == UNION {{r.field : r \in SelectedBefore(c, type)} : type \in Types}
    IN {f \in fields : \A g \in fields : ~IsProperPrefix(f, g) /\ ~IsProperPrefix(g, f)}

\* the snapshot of call c has the leaf at the field path that it had before
FrameKept(c, field) ==
    calls[c].error = "none" /\ Lookup(calls[c].result, field) \in LeavesBefore(c, field)

Entangled(field) ==
    \E g \in Named : IsProperPrefix(field, g) \/ IsProperPrefix(g, field)

Kept(type, r) ==
    \E q \in tables'[type] :
        /\ q.id = r.id /\ q.node = r.node /\ q.field = r.field
        /\ q.value = r.value /\ q.timestamp = r.timestamp

\* the step is the DELETE of a remove call for the node of r
RemovedByRemove(type, r) ==
    \E c \in Clients :
        /\ calls[c].op = "remove" /\ calls[c].pc = "loop" /\ calls[c].node = r.node
        /\ TS_TABLES[calls[c].i] = type

\* C24: an Observation, once written, keeps its id, node, field, value and
\* timestamp; only its latest flag may change, and it disappears only through
\* remove of its node.
C24_ObservationImmutability ==
    [][\A type \in Types : \A r \in tables[type] :
          Kept(type, r) \/ RemovedByRemove(type, r)]_vars

\* a remove of one node has returned and the other node keeps its
\* Observations, one of which has lost the latest flag
C24_Witness ==
    \E c \in Clients :
        /\ calls[c].op = "remove" /\ calls[c].pc = "done" /\ calls[c].error = "none"
        /\ \E r, q \in tables["number"] :
              /\ r.node # calls[c].node /\ q.node = r.node /\ q.field = r.field
              /\ r.latest = 0 /\ q.latest = 1

(***************************************************************************)
(* SpecCodec: one client writes a value of a supported type to the field   *)
(* .a of a fresh node; when the write has completed another client reads   *)
(* the field with synthesizeObject, getSeries or search                    *)
(***************************************************************************)
\* 0, 1, "", "hhhhh", true, false, two dates, [1, "h", true], [<date>], [NaN]
CodecValues ==
    {Num(0), Num(1), Str("h", 0), Str("h", 5), Bool(TRUE), Bool(FALSE), Date(0), Date(1),
     Arr(<<Num(1), Str("h", 1), Bool(TRUE)>>), Arr(<<Date(1)>>), Arr(<<NaN>>)}

\* the value the first client wrote to the field .a
Inserted == calls[FirstClient].value.props[<<"a">>]

NextCodec ==
    \/ WriteSteps
    \/ LockSteps
    \/ SnapshotSteps
    \/ SeriesSteps
    \/ SearchSteps
    \/ \E c \in {FirstClient, SecondClient} : initialize(c, Prefix)
    \/ /\ Quiescent /\ ncalls = 0
       /\ \E v \in CodecValues, date \in Dates :
            insertObject(FirstClient, Node1, ObjA(v), date)
    \/ /\ Quiescent /\ ncalls = 1
       /\ calls[FirstClient].error = "none"
       /\ \/ synthesizeObject(SecondClient, Node1)
          \/ getSeries(SecondClient, Node1, FieldA, Date(MaxTime), Num(1))
          \/ search(SecondClient, FieldA, Inserted, Date(MaxTime), Num(1))

SpecCodec == Init /\ [][NextCodec]_vars

\* the write of the value has completed and the read that followed has returned
CodecDone ==
    /\ calls[FirstClient].op = "insertObject" /\ calls[FirstClient].error = "none"
    /\ calls[SecondClient].op \in {"synthesizeObject", "getSeries", "search"}
    /\ calls[SecondClient].pc = "done" /\ calls[SecondClient].error = "none"

\* the read returns the value v for the field .a
ReadBack(v) ==
    LET call == calls[SecondClient] IN
    IF call.op = "synthesizeObject"
    THEN Lookup(call.result, <<"a">>) = Leaf(v, calls[FirstClient].date)
    ELSE Len(call.result.rows) = 1 /\ call.result.rows[1].value = v

\* C25: for every supported primitive value v of each type (finite number,
\* string and array within the maximum size, boolean, date), the value that
\* synthesizeObject, getSeries and search read back after v was inserted
\* equals v.
C25_CodecRoundTrip == CodecDone => ReadBack(Inserted)

\* an array whose elements JSON represents: finite numbers, strings, booleans, null
JSONArray(v) ==
    v.kind = "array" =>
        \A i \in 1..Len(v.elems) :
            \/ v.elems[i].kind \in {"string", "boolean", "null"}
            \/ v.elems[i].kind = "number" /\ v.elems[i].finite

\* the same for the values other than the arrays with an element that JSON
\* does not represent
CodecRoundTripOfJSONValues == (CodecDone /\ JSONArray(Inserted)) => ReadBack(Inserted)

(***************************************************************************)
(* Demotion and the return of the write, under SpecLatest                  *)
(***************************************************************************)
\* the Observations the last insertObject call stored as the latest have no
\* other Observation of their (node, field) with the latest flag beside them
Demoted(type) ==
    \A r \in Stored(type) :
        r.latest = 1 =>
            \A q \in Series(tables[type], r.node, r.field) : q.id # r.id => q.latest = 0

\* C26: for every value type, when a single-field write that determined
\* latest = true returns, every other Observation of the same (node, field) in
\* that partition already has latest = false.
C26_DemotionBeforeReturn ==
    \A c \in Clients : Returned(c) => \A type \in Types : Demoted(type)

\* the same for the types whose write awaits setIsLatest and hands it latest
DemotionBeforeReturnOfTexts ==
    \A c \in Clients : Returned(c) => \A type \in {"string", "array"} : Demoted(type)

(***************************************************************************)
(* SpecLate: one client writes the field .a of one node, awaiting each     *)
(* call before the next; the statements a call has left in flight when it  *)
(* returns complete at any later time                                      *)
(***************************************************************************)
LateValues == {Num(1), Str("h", 5)}

NextLate ==
    \/ WriteSteps
    \/ LockSteps
    \/ initialize(FirstClient, Prefix)
    \/ \E v \in LateValues, date \in Dates : insertObject(FirstClient, Node1, ObjA(v), date)

SpecLate == Init /\ [][NextLate]_vars

\* the greatest Observation of every (node, field) of the partition has the
\* latest flag
GreatestIsLatest(type) ==
    \A r \in tables[type] : Greatest(Series(tables[type], r.node, r.field)).latest = 1

\* C27: when a single caller issues insertObject calls one after the other to
\* the same (node, field) of one type, then, also when the backend applies the
\* demotion statement of an earlier insert after the statements of a later
\* one, at quiescence the Observation of greatest timestamp (ties broken by
\* greatest id) has latest = true.
C27_LatestHolderExists ==
    (Quiescent /\ OneTypePerField) => \A type \in Types : GreatestIsLatest(type)

\* the same for the strings, whose write awaits its demotion statement
LatestHolderOfStrings == (Quiescent /\ OneTypePerField) => GreatestIsLatest("string")

(***************************************************************************)
(* SpecCurrent: one client writes numbers to the field .a of one node and  *)
(* reads the node, as it is now and as of the last instant, each call      *)
(* invoked when nothing is in flight                                       *)
(***************************************************************************)
CurrentValues == {Num(1), Num(2)}

NextCurrent ==
    \/ WriteSteps
    \/ LockSteps
    \/ SnapshotSteps
    \/ initialize(FirstClient, Prefix)
    \/ /\ Quiescent
       /\ \E v \in CurrentValues, date \in Dates :
            insertObject(FirstClient, Node1, ObjA(v), date)
    \/ /\ Quiescent
       /\ \/ synthesizeObject(FirstClient, Node1)
          \/ synthesizeObjectAt(FirstClient, Node1, Date(MaxTime))

SpecCurrent == Init /\ [][NextCurrent]_vars

\* a snapshot of the node, current or as of an instant that no stored
\* timestamp of the node exceeds, has returned
FullSnapshot(c) ==
    /\ calls[c].op \in {"synthesizeObject", "synthesizeObjectAt"}
    /\ calls[c].pc = "done" /\ calls[c].error = "none"
    /\ calls[c].op = "synthesizeObjectAt" =>
          \A type \in Types : \A r \in tables[type] :
              r.node = calls[c].node => r.timestamp <= calls[c].date.ms

\* the snapshot holds at every field of the node the Observation of greatest
\* timestamp, ties broken by greatest id
HoldsGreatest(c) ==
    \A type \in Types : \A r \in tables[type] :
        r.node = calls[c].node =>
            LET g == Greatest(Series(tables[type], r.node, r.field))
            IN Lookup(calls[c].result, r.field) = Leaf(Decode(type, g.value), Date(g.timestamp))

\* C28: after sequential insertObject calls in which each field keeps one
\* type, all statements having completed, synthesizeObject(node) returns the
\* same object as synthesizeObjectAt(node, T) for any T at or after every
\* stored timestamp of the node: both hold, at every field, the Observation of
\* greatest timestamp, the one of greatest id among equals (the latest one).
C28_CurrentEqualsFullHistory ==
    \A c \in Clients : (FullSnapshot(c) /\ OneTypePerField) => HoldsGreatest(c)

\* the current snapshot does
CurrentHoldsGreatest ==
    \A c \in Clients :
        (FullSnapshot(c) /\ calls[c].op = "synthesizeObject") => HoldsGreatest(c)

\* the Observations of the field have different timestamps
DistinctTimestamps ==
    \A type \in Types : \A r, q \in tables[type] :
        (r.node = q.node /\ r.field = q.field /\ r.timestamp = q.timestamp) => r.id = q.id

\* both do when no two Observations of a field have the same timestamp
FullHistoryOfDistinctTimestamps ==
    \A c \in Clients : (FullSnapshot(c) /\ DistinctTimestamps) => HoldsGreatest(c)

(***************************************************************************)
(* SpecLocked: two clients write the field .a of one node, a date or a      *)
(* string, at the same time                                                *)
(***************************************************************************)
LockedValues == {Date(1), Str("h", 5)}

NextLocked ==
    \/ WriteSteps
    \/ LockSteps
    \/ \E c \in {FirstClient, SecondClient} : initialize(c, Prefix)
    \/ \E c \in {FirstClient, SecondClient}, v \in LockedValues, date \in Dates :
         insertObject(c, Node1, ObjA(v), date)

SpecLocked == Init /\ [][NextLocked]_vars

\* no session holds the write lock
NoWriteLock == \A c \in Clients : sessLock[c] # "WRITE"

\* C29: with locking enabled, for any interleaving of concurrent insertObject
\* calls by different clients to the same (node, field) of one type, in every
\* state where no insertObject holds the write lock exactly one Observation
\* of the (node, field) has latest = true and it is the one with the greatest
\* timestamp, ties broken by greatest id.
C29_LockingRestores ==
    (enableLock /\ NoWriteLock /\ OneTypePerField) =>
        \A type \in Types : LatestIsGreatest(type)

\* the same for the string partition
LockingRestoresStrings ==
    (enableLock /\ NoWriteLock /\ OneTypePerField) => LatestIsGreatest("string")

(***************************************************************************)
(* Searches of SpecSearch: the value as of the instant                     *)
(***************************************************************************)
\* an Observation of the node and field of r, in any partition, that is later
\* than r, at or before the instant of the search, and of another value
Overwritten(c, r) ==
    \E type \in Types : \E q \in tables[type] :
        /\ q.node = r.node /\ q.field = r.field
        /\ r.timestamp < q.timestamp /\ q.timestamp <= calls[c].date.ms
        /\ type # calls[c].value.kind \/ q.value # r.value

\* C30: every node that search(field, value, instant, limit) returns has
\* value as the value of its most recent Observation of field at or before
\* the instant; a node whose field had the value earlier and was overwritten
\* at or before the instant is not returned.
C30_SearchAsOfInstant ==
    \A c \in Clients : SearchReturned(c) =>
        \A i \in 1..Len(calls[c].result.rows) :
            \A r \in SearchMatches(c) :
                r.id = calls[c].result.ids[i] => ~Overwritten(c, r)

(***************************************************************************)
(* SpecPriority: one client writes values of the five types to the field   *)
(* .a of one node, one call after the other, and reads the series of the   *)
(* field, each call invoked when nothing is in flight                      *)
(***************************************************************************)
NextPriority ==
    \/ WriteSteps
    \/ LockSteps
    \/ SeriesSteps
    \/ initialize(FirstClient, Prefix)
    \/ /\ Quiescent
       /\ \E v \in TypedValues, date \in Dates : insertObject(FirstClient, Node1, ObjA(v), date)
    \/ /\ Quiescent
       /\ \E when \in Dates : getSeries(FirstClient, Node1, FieldA, when, Num(2))

SpecPriority == Init /\ [][NextPriority]_vars

\* the fixed order of the partitions
Priority == <<"string", "number", "array", "date", "boolean">>

\* the Observations of a partition that match the call: its node and field, at
\* or before its instant
Matching(c, type) ==
    {r \in tables[type] : /\ r.node = calls[c].node /\ r.field = calls[c].field.segs
                          /\ r.timestamp <= calls[c].date.ms}

\* the result holds Observations of partition Priority[k] only, and at least one
FromPartition(c, k) ==
    LET res == calls[c].result IN
    /\ res.type = Priority[k] /\ Len(res.rows) > 0
    /\ \A i \in 1..Len(res.rows) : \E r \in Matching(c, Priority[k]) :
          /\ r.id = res.ids[i]
          /\ res.rows[i] = [value |-> Decode(Priority[k], r.value),
                            timestamp |-> Date(r.timestamp)]

\* C31: when Observations of (node, field) at or before the instant exist in
\* more than one partition, getSeries returns Observations only from the first
\* such partition in the order string, number, array, date, boolean, never
\* mixing two partitions, and it returns an empty sequence only if no
\* partition has a matching Observation.
C31_SeriesPriority ==
    \A c \in Clients : SeriesReturned(c) =>
        IF \A type \in Types : Matching(c, type) = {}
        THEN Len(calls[c].result.rows) = 0
        ELSE \E k \in 1..Len(Priority) :
                /\ Matching(c, Priority[k]) # {}
                /\ \A j \in 1..(k - 1) : Matching(c, Priority[j]) = {}
                /\ FromPartition(c, k)

\* a series was returned from the array partition while the date partition
\* holds a matching Observation too
C31_Witness ==
    \E c \in Clients :
        /\ SeriesReturned(c)
        /\ calls[c].result.type = "array"
        /\ Matching(c, "array") # {} /\ Matching(c, "date") # {}


LocalObjects == {ObjA(Num(1)), ObjAB(Num(1), Num(2))}

NextLocal ==
    \/ WriteSteps
    \/ LockSteps
    \/ \E c \in Clients : ExecRemoveDelete(c)
    \/ initialize(FirstClient, Prefix)
    \/ /\ Quiescent
       /\ \E node \in ExistsNodes :
            \/ \E value \in LocalObjects : insertObject(FirstClient, node, value, Date(1))
            \/ remove(FirstClient, node, Bool(TRUE))

SpecLocal == Init /\ [][NextLocal]_vars

\* the step leaves the Observation r of the partition of type as it is
Untouched(type, r) == r \in tables'[type]

\* the step clears the latest flag of r, and nothing else of r, for the
\* single-field write w that an insertObject call for the node of r started
\* for the field path of r in this partition
DemotedByWrite(type, r) ==
    /\ r.latest = 1
    /\ [r EXCEPT !.latest = 0] \in tables'[type]
    /\ \E w \in writers : /\ w.pc = "setIsLatest" /\ w.type = type
                          /\ w.node = r.node /\ w.field = r.field

\* the step deletes r for a remove of the node of r
DeletedByRemove(type, r) ==
    /\ \A q \in tables'[type] : q.id # r.id
    /\ \E c \in Clients : /\ calls[c].op = "remove" /\ calls[c].pc = "loop"
                          /\ ToBoolean(calls[c].sure) /\ calls[c].node = r.node

\* C33: writes are local to their (node, field): a step changes the latest
\* flag only of Observations with the node and a field path of an
\* insertObject call, a step deletes only Observations with the node of a
\* remove(n, true), and every other Observation of every partition is left
\* unchanged by the step.
C33_WriteLocality ==
    [][\A type \in Types : \A r \in tables[type] :
          \/ Untouched(type, r)
          \/ DemotedByWrite(type, r)
          \/ DeletedByRemove(type, r)]_vars

\* a write of .a of node 1 has demoted the Observation of .a of node 1 while
\* the Observations of .b of node 1 and of .a of node 2 keep their flag
C33_Witness ==
    \E r, q, s, t \in tables["number"] :
        /\ r.node = Node1 /\ r.field = <<"a">> /\ r.latest = 0
        /\ q.node = Node1 /\ q.field = <<"a">> /\ q.latest = 1
        /\ q.id > r.id /\ q.timestamp >= r.timestamp
        /\ s.node = Node1 /\ s.field = <<"b">> /\ s.latest = 1 /\ s.id < q.id
        /\ t.node = Node2 /\ t.field = <<"a">> /\ t.latest = 1 /\ t.id < q.id

=============================================================================
